---- MODULE Spec2Model ----
(***************************************************************************)
(* Model of the feeder front end: ProductForm's quantity auto-calculation, *)
(* the product-detail formula, the remote data operations, the QR card     *)
(* generators and the ProductVisualizer.                                   *)
(*                                                                         *)
(* Texts are sequences of one-character strings.  Numbers are exact        *)
(* rationals [num, den] with den a power of ten (IEEE rounding error of    *)
(* the JavaScript doubles is not modelled); a quantity is kept in          *)
(* hundredths where the code has rounded it to two decimals.               *)
(***************************************************************************)
EXTENDS Integers, Sequences, FiniteSets, TLC

\* -------------------------------------------------------------------------
\* Bounds
\* -------------------------------------------------------------------------
\* integers -MaxNum..MaxNum are offered as numerals to the free-text inputs
MaxNum == 2

\* price updates of the AllQR page that may be awaiting their response
MaxInFlight == 2

\* runs of generateQRCode that one QRCodeGenerator starts
MaxGenerations == 2

\* renders of one ProductVisualizer with a productImage of their own
MaxRenders == 2

\* words of a product name
MaxWords == 5

\* files that one form session chooses in all, and in one change event
MaxFiles == 11

MaxBatch == 3

\* images of the product that the edit page opens
MaxExisting == 1

\* -------------------------------------------------------------------------
\* Text and number helpers (JavaScript built-ins used by the code)
\* -------------------------------------------------------------------------
Digits == <<"0", "1", "2", "3", "4", "5", "6", "7", "8", "9">>

IsDigit(c) == \E i \in 1..10 : Digits[i] = c

DigitVal(c) == (CHOOSE i \in 1..10 : Digits[i] = c) - 1

NaN == [nan |-> TRUE]

Num(n, d) == [nan |-> FALSE, num |-> n, den |-> d]

IsNaN(v) == v.nan

Abs(n) == IF n < 0 THEN -n ELSE n

\* Number.parseFloat, scanning s from index i.  phase is "lead" before the
\* sign, "int" in the integer digits and "frac" after the decimal point; mag
\* and den hold the digits read so far, seen whether there was any.  The scan
\* stops at the first character that cannot continue the numeral and ignores
\* the rest.  (Exponents and "Infinity" need letters that the modelled
\* inputs do not contain.)
RECURSIVE ParseFloatFrom(_, _, _, _, _, _, _)
ParseFloatFrom(s, i, phase, neg, mag, den, seen) ==
  LET done == IF seen THEN Num(IF neg THEN -mag ELSE mag, den) ELSE NaN
  IN  IF i > Len(s) THEN done
      ELSE IF phase = "lead" /\ s[i] = " "
      THEN ParseFloatFrom(s, i + 1, "lead", neg, mag, den, seen)
      ELSE IF phase = "lead" /\ s[i] \in {"-", "+"}
      THEN ParseFloatFrom(s, i + 1, "int", s[i] = "-", mag, den, seen)
      ELSE IF phase \in {"lead", "int"} /\ IsDigit(s[i])
      THEN ParseFloatFrom(s, i + 1, "int", neg, 10 * mag + DigitVal(s[i]),
                          den, TRUE)
      ELSE IF phase \in {"lead", "int"} /\ s[i] = "."
      THEN ParseFloatFrom(s, i + 1, "frac", neg, mag, den, seen)
      ELSE IF phase = "frac" /\ IsDigit(s[i])
      THEN ParseFloatFrom(s, i + 1, "frac", neg, 10 * mag + DigitVal(s[i]),
                          10 * den, TRUE)
      ELSE done

ParseFloat(s) == ParseFloatFrom(s, 1, "lead", FALSE, 0, 1, FALSE)

\* decimal digits of a natural number
RECURSIVE NatText(_)
NatText(n) ==
  IF n < 10 THEN <<Digits[n + 1]>>
  ELSE Append(NatText(n \div 10), Digits[(n % 10) + 1])

IntText(n) == IF n < 0 THEN <<"-">> \o NatText(-n) ELSE NatText(n)

\* Number.prototype.toString of a number that is a whole count of
\* hundredths: no trailing zeros, no decimal point for an integer.
HundredthsText(h) ==
  LET a == Abs(h)
      f == a % 100
      frac == IF f = 0 THEN <<>>
              ELSE IF f % 10 = 0 THEN <<".", Digits[(f \div 10) + 1]>>
              ELSE <<".", Digits[(f \div 10) + 1], Digits[(f % 10) + 1]>>
  IN  (IF h < 0 THEN <<"-">> ELSE <<>>) \o NatText(a \div 100) \o frac

\* Math.round(x * 100) for x = n / d (d > 0): nearest integer, a tie goes
\* towards plus infinity.
MathRound100(n, d) == (200 * n + d) \div (2 * d)

\* x.toFixed(2) for x = n / d (d > 0), in hundredths: nearest, a tie goes
\* away from zero (toFixed rounds the magnitude and then puts the sign).
ToFixed2(n, d) ==
  LET m == (200 * Abs(n) + d) \div (2 * d)
  IN  IF n < 0 THEN -m ELSE m

\* the decimals of r / d for 0 <= r < d, d a power of ten
RECURSIVE FractionText(_, _)
FractionText(r, d) ==
  IF r = 0 THEN <<>>
  ELSE <<Digits[((10 * r) \div d) + 1]>> \o FractionText((10 * r) % d, d)

\* String(x) of a template literal for x = n / d, d a power of ten: the
\* shortest decimal numeral
NumberText(v) ==
  LET a == Abs(v.num)
      frac == FractionText(a % v.den, v.den)
  IN  (IF v.num < 0 THEN <<"-">> ELSE <<>>)
        \o NatText(a \div v.den)
        \o (IF frac = <<>> THEN <<>> ELSE <<".">> \o frac)

\* x.toFixed(2) for x = n / d (d > 0) as text: the sign of x, the integer
\* part, a point and two decimals
ToFixed2Text(n, d) ==
  LET m == Abs(ToFixed2(n, d))
  IN  (IF n < 0 THEN <<"-">> ELSE <<>>)
        \o NatText(m \div 100)
        \o <<".", Digits[((m % 100) \div 10) + 1], Digits[(m % 10) + 1]>>

\* -------------------------------------------------------------------------
\* State
\* -------------------------------------------------------------------------
VARIABLES
  \* ProductForm (react-hook-form values and component state)
  sizeLength, sizeHeight, sizeUnit, numberOfPieces, size,
  quantityAvailable, autoCalculateQuantity, calculationPreview,
  sizeParseError,
  \* ProductForm: mode prop, image previews and submission state
  mode, previews, formLoading, message, postId, qrCodeUrl, submitPending,
  \* the product as the backend stores it
  product,
  \* ProductDetail page
  detailPage, detailLoading, detailError, detailProduct, quantityFormula,
  \* the feeder pages: which one is mounted, and the state of each (NULL
  \* while it is not mounted)
  page, productsPg, allQR, editPg,
  \* the product list as the backend stores it
  serverProducts,
  \* QRCodeGenerator component
  qrGenerator,
  \* AllQR page, QR cards: generatingQR state, the generations under way and
  \* the last file handed to the browser for download
  generatingQR, cardOps, download,
  \* ProductVisualizer component
  visualizer,
  \* one run of the name drawing of a QR card
  nameWrap,
  \* localStorage of the origin, and the page that the browser shows with
  \* the state of its ProtectedRoute
  storage, guard,
  \* ProductForm: initialData.image, the files chosen for upload and their
  \* count
  initialImages, images, newImageCount,
  \* one request to the image proxy route
  proxy,
  \* one call of QRCode.toDataURL
  qrCall,
  \* observer: the remote operations whose latest run ended in a failure
  failed

formVars == <<sizeLength, sizeHeight, sizeUnit, numberOfPieces, size,
              quantityAvailable, autoCalculateQuantity, calculationPreview,
              sizeParseError>>

submitVars == <<mode, previews, formLoading, message, postId, qrCodeUrl,
                submitPending>>

detailVars == <<detailPage, detailLoading, detailError, detailProduct,
                quantityFormula>>

pageVars == <<page, productsPg, allQR, editPg, serverProducts>>

cardVars == <<generatingQR, cardOps, download>>

authVars == <<storage, guard>>

imageVars == <<initialImages, images, newImageCount>>

\* code that runs on its own: the name drawing of a QR card, the route
\* guard, the image list of the form, the proxy route, the QR encoder calls
standaloneVars == <<nameWrap, authVars, imageVars, proxy, qrCall>>

\* the components that take no part in the forms and the data pages
widgetVars == <<qrGenerator, cardVars, visualizer, standaloneVars>>

vars == <<formVars, submitVars, product, detailVars, pageVars, widgetVars,
          failed>>

\* the forms, the pages and the components
coreVars == <<formVars, submitVars, product, detailVars, pageVars,
              qrGenerator, cardVars, visualizer, failed>>

\* what an edit of the form's inputs leaves alone
notFormEdit == <<submitVars, product, detailVars, pageVars, widgetVars, failed>>

\* null, for values that are otherwise records; a nullable string is "" when
\* it is null (the code only tests such strings for truthiness)
NULL == [null |-> TRUE]

\* -------------------------------------------------------------------------
\* ProductForm: quantity auto-calculation
\* -------------------------------------------------------------------------
\* the two SelectItem values of the sizeUnit select
Units == {"in", "cm"}

\* what a user may type or paste into a free-text input: nothing, a numeral,
\* letters, a numeral followed by letters, a lone sign
OtherTexts == {<<>>, <<"a">>, <<"2", "a">>, <<"-">>}

FormTexts == {IntText(n) : n \in -MaxNum..MaxNum} \cup OtherTexts

\* the divisor of the "in" branch, taken for every unit
FormDivisorAlwaysInches(unit) == 144

\* the divisor of the form's effect: 144 in the "in" branch, 929 in the else
FormDivisor(unit) == IF unit = "in" THEN 144 ELSE 929

\* the three isNaN tests of the effect
AnyNaN(length, height, pieces) ==
  IsNaN(length) \/ IsNaN(height) \/ IsNaN(pieces)

\* Math.round(calculatedQuantity * 100) / 100, in hundredths
RoundedQuantity(length, height, pieces, unit) ==
  MathRound100(length.num * height.num * pieces.num,
               length.den * height.den * pieces.den * FormDivisor(unit))

\* the template string `(l × h × p) ÷ d = q.toFixed(2) sqft`, kept as its
\* interpolated parts
Formula(length, height, pieces, divisor) ==
  [l |-> length, h |-> height, p |-> pieces, d |-> divisor,
   q |-> ToFixed2(length.num * height.num * pieces.num,
                  length.den * height.den * pieces.den * divisor)]

\* the characters of the template string of a formula
FormulaText(f) ==
  <<"(">> \o NumberText(f.l) \o <<" ", "×", " ">> \o NumberText(f.h)
    \o <<" ", "×", " ">> \o NumberText(f.p) \o <<")", " ", "÷", " ">>
    \o NatText(f.d) \o <<" ", "=", " ">>
    \o ToFixed2Text(f.l.num * f.h.num * f.p.num,
                    f.l.den * f.h.den * f.p.den * f.d)
    \o <<" ", "s", "q", "f", "t">>

\* the effect without its early return for a switch that is off
EffectIgnoringSwitch(auto, l, h, u, p, q, err) ==
  LET length == ParseFloat(l)
      height == ParseFloat(h)
      pieces == ParseFloat(p)
  IN  IF l = <<>> \/ h = <<>> \/ p = <<>>
      THEN [quantity |-> q, preview |-> NULL, error |-> ""]
      ELSE IF AnyNaN(length, height, pieces)
      THEN [quantity |-> q, preview |-> NULL,
            error |-> "Please enter valid numbers for size and pieces"]
      ELSE [quantity |->
              HundredthsText(RoundedQuantity(length, height, pieces, u)),
            preview |-> Formula(length, height, pieces, FormDivisor(u)),
            error |-> ""]

\* The useEffect on [sizeLength, sizeHeight, sizeUnit, numberOfPieces,
\* autoCalculateQuantity], run on the values auto, l, h, u, p of the render
\* that scheduled it; q and err are quantityAvailable and sizeParseError
\* before the run.  The result is what the three setters leave behind.
Effect(auto, l, h, u, p, q, err) ==
  IF ~auto
  THEN [quantity |-> q, preview |-> NULL, error |-> err]
  ELSE EffectIgnoringSwitch(auto, l, h, u, p, q, err)

\* a render with the values auto, l, h, u, p, followed by the effect
QuantityEffect(auto, l, h, u, p) ==
  LET r == Effect(auto, l, h, u, p, quantityAvailable, sizeParseError)
  IN  /\ quantityAvailable' = r.quantity
      /\ calculationPreview' = r.preview
      /\ sizeParseError' = r.error

\* the hidden size field written by the onChange of sizeLength and sizeHeight
CombinedSize(length, height) ==
  IF length # <<>> /\ height # <<>> THEN length \o <<"x">> \o height ELSE <<>>

\* state after mount in create mode: defaultValues, then the effect's first run
InitForm ==
  /\ sizeLength = <<>>
  /\ sizeHeight = <<>>
  /\ sizeUnit = "in"
  /\ numberOfPieces = <<>>
  /\ size = <<>>
  /\ quantityAvailable = <<>>
  /\ autoCalculateQuantity = TRUE
  /\ calculationPreview = NULL
  /\ sizeParseError = ""

\* onChange of the sizeLength input
ChangeSizeLength ==
  \E t \in FormTexts \ {sizeLength} :
    /\ sizeLength' = t
    /\ size' = CombinedSize(t, sizeHeight)
    /\ QuantityEffect(autoCalculateQuantity, t, sizeHeight, sizeUnit,
                      numberOfPieces)
    /\ UNCHANGED <<sizeHeight, sizeUnit, numberOfPieces, autoCalculateQuantity,
                   notFormEdit>>

\* onChange of the sizeHeight input
ChangeSizeHeight ==
  \E t \in FormTexts \ {sizeHeight} :
    /\ sizeHeight' = t
    /\ size' = CombinedSize(sizeLength, t)
    /\ QuantityEffect(autoCalculateQuantity, sizeLength, t, sizeUnit,
                      numberOfPieces)
    /\ UNCHANGED <<sizeLength, sizeUnit, numberOfPieces, autoCalculateQuantity,
                   notFormEdit>>

\* onValueChange of the sizeUnit select
ChangeSizeUnit ==
  \E u \in Units \ {sizeUnit} :
    /\ sizeUnit' = u
    /\ QuantityEffect(autoCalculateQuantity, sizeLength, sizeHeight, u,
                      numberOfPieces)
    /\ UNCHANGED <<sizeLength, sizeHeight, numberOfPieces, size,
                   autoCalculateQuantity, notFormEdit>>

\* onChange of the numberOfPieces input
ChangeNumberOfPieces ==
  \E t \in FormTexts \ {numberOfPieces} :
    /\ numberOfPieces' = t
    /\ QuantityEffect(autoCalculateQuantity, sizeLength, sizeHeight, sizeUnit, t)
    /\ UNCHANGED <<sizeLength, sizeHeight, sizeUnit, size,
                   autoCalculateQuantity, notFormEdit>>

\* onCheckedChange of the auto-calculate Switch
ToggleAutoCalculate ==
  /\ autoCalculateQuantity' = ~autoCalculateQuantity
  /\ QuantityEffect(~autoCalculateQuantity, sizeLength, sizeHeight, sizeUnit,
                    numberOfPieces)
  /\ UNCHANGED <<sizeLength, sizeHeight, sizeUnit, numberOfPieces, size,
                 notFormEdit>>

\* typing into the quantityAvailable input, readOnly while auto-calculate is
\* on; the effect does not depend on this field and is not run
EnterQuantity ==
  /\ ~autoCalculateQuantity
  /\ \E t \in FormTexts \ {quantityAvailable} : quantityAvailable' = t
  /\ UNCHANGED <<sizeLength, sizeHeight, sizeUnit, numberOfPieces, size,
                 autoCalculateQuantity, calculationPreview, sizeParseError,
                 notFormEdit>>

\* -------------------------------------------------------------------------
\* ProductForm: submission
\* -------------------------------------------------------------------------
\* useState defaults of the submission state, in the given mode with the
\* given initial previews (initialData.image in edit mode)
InitSubmit(m, imgs) ==
  /\ mode = m
  /\ previews = imgs
  /\ formLoading = FALSE
  /\ message = NULL
  /\ postId = IF m = "edit" THEN "p1" ELSE ""
  /\ qrCodeUrl = ""
  /\ submitPending = NULL

ErrorMessage(text) == [type |-> "error", text |-> text]

SuccessMessage(text) == [type |-> "success", text |-> text]

\* the message element is rendered under: message && (mode === "edit" ||
\* !qrCodeUrl)
MessageShown == message # NULL /\ (mode = "edit" \/ qrCodeUrl = "")

\* the fields of the FormData that the later pages read
FormValues ==
  [size |-> size, sizeUnit |-> sizeUnit, numberOfPieces |-> numberOfPieces,
   quantityAvailable |-> quantityAvailable]

\* handleSubmit up to the await of axios.post.  The zod resolver calls it
\* only with quantityAvailable non-empty; the button is disabled while
\* loading.  Without previews it throws before the request and its catch
\* and finally run at once.
SubmitStart ==
  /\ ~formLoading
  /\ submitPending = NULL
  /\ quantityAvailable # <<>>
  /\ IF previews = <<>>
     THEN /\ message' = ErrorMessage("You must have at least one image")
          /\ formLoading' = FALSE
          /\ UNCHANGED submitPending
     ELSE /\ message' = NULL
          /\ formLoading' = TRUE
          /\ submitPending' = FormValues
  /\ failed' = failed \ {"handleSubmit"}
  /\ UNCHANGED <<widgetVars,
                 formVars, mode, previews, postId, qrCodeUrl, product,
                 detailVars, pageVars>>

\* what the server may answer to a request
Outcomes == {"success", "noSuccess", "thrown"}

\* handleSubmit after the await, response.data.success true.  In create
\* mode the QR code is generated first (qr = FALSE: QRCode.toDataURL
\* rejects, generateQRCode throws and the catch reports it); then the
\* success message is set and the form, the images and the previews are
\* reset, which reruns the quantity effect on the default values.
SubmitSucceeds ==
  /\ submitPending # NULL
  /\ product' = submitPending
  /\ submitPending' = NULL
  /\ formLoading' = FALSE
  /\ \E qr \in BOOLEAN :
       IF mode = "create" /\ ~qr
       THEN /\ postId' = "p1"
            /\ message' = ErrorMessage("Failed to generate QR code")
            /\ UNCHANGED <<formVars, previews, qrCodeUrl, images,
                           newImageCount>>
       ELSE IF mode = "create"
       THEN /\ postId' = "p1"
            /\ qrCodeUrl' = "qr:p1"
            /\ message' = SuccessMessage("Product created successfully!")
            /\ previews' = <<>>
            /\ images' = <<>>
            /\ newImageCount' = 0
            /\ sizeLength' = <<>>
            /\ sizeHeight' = <<>>
            /\ sizeUnit' = "in"
            /\ numberOfPieces' = <<>>
            /\ size' = <<>>
            /\ LET r == Effect(autoCalculateQuantity, <<>>, <<>>, "in", <<>>,
                               <<>>, sizeParseError)
               IN  /\ quantityAvailable' = r.quantity
                   /\ calculationPreview' = r.preview
                   /\ sizeParseError' = r.error
            /\ UNCHANGED autoCalculateQuantity
       ELSE /\ qr
            /\ message' = SuccessMessage("Product updated successfully!")
            /\ UNCHANGED <<formVars, previews, postId, qrCodeUrl, images,
                           newImageCount>>
  /\ UNCHANGED <<qrGenerator, cardVars, visualizer, nameWrap, authVars,
                 initialImages, proxy, qrCall,
                 mode, detailVars, pageVars, failed>>

\* handleSubmit after the await, response without success (the else branch
\* throws) or axios.post rejected: the catch sets the error message
SubmitFails ==
  /\ submitPending # NULL
  /\ \E o \in Outcomes \ {"success"} :
       message' = ErrorMessage(IF o = "noSuccess" THEN "Failed to save product"
                               ELSE "Network Error")
  /\ submitPending' = NULL
  /\ formLoading' = FALSE
  /\ failed' = failed \cup {"handleSubmit"}
  /\ UNCHANGED <<widgetVars,
                 formVars, mode, previews, postId, qrCodeUrl, product,
                 detailVars, pageVars>>

\* -------------------------------------------------------------------------
\* ProductDetail: fetchProduct and calculateQuantityFormula
\* -------------------------------------------------------------------------
\* size.replace(/\s+/g, "")
RemoveSpaces(s) == SelectSeq(s, LAMBDA c : c # " ")

\* \d+(?:\.\d+)? on the whole of t
UnsignedDecimal(t) ==
  /\ t # <<>>
  /\ \A i \in 1..Len(t) : IsDigit(t[i]) \/ t[i] = "."
  /\ Cardinality({i \in 1..Len(t) : t[i] = "."}) <= 1
  /\ IsDigit(t[1]) /\ IsDigit(t[Len(t)])

\* match(/^(\d+(?:\.\d+)?)[x*-](\d+(?:\.\d+)?)$/): the two captured groups,
\* or NULL
MatchSize(s) ==
  LET seps == {i \in 1..Len(s) :
                 /\ s[i] \in {"x", "*", "-"}
                 /\ UnsignedDecimal(SubSeq(s, 1, i - 1))
                 /\ UnsignedDecimal(SubSeq(s, i + 1, Len(s)))}
  IN  IF seps = {} THEN NULL
      ELSE LET i == CHOOSE j \in seps : TRUE
           IN  [length |-> SubSeq(s, 1, i - 1),
                height |-> SubSeq(s, i + 1, Len(s))]

\* Number(text): the whole text must be a numeral, the empty text is 0
\* (blanks, exponents and hexadecimal are not among the modelled texts)
NumberOf(t) ==
  IF t = <<>> THEN Num(0, 1)
  ELSE IF /\ \A i \in 1..Len(t) :
               IsDigit(t[i]) \/ t[i] = "." \/ (i = 1 /\ t[i] \in {"-", "+"})
          /\ Cardinality({i \in 1..Len(t) : t[i] = "."}) <= 1
       THEN ParseFloat(t)
       ELSE NaN

\* the divisor of calculateQuantityFormula: 144 when sizeUnit is "inches"
DetailDivisor(unit) == IF unit = "inches" THEN 144 ELSE 929

\* calculateQuantityFormula(size, sizeUnit, numberOfPieces)
CalculateQuantityFormula(sz, unit, pieces) ==
  IF sz = <<>> \/ IsNaN(pieces) \/ pieces.num = 0 THEN NULL
  ELSE LET match == MatchSize(RemoveSpaces(sz))
       IN  IF match = NULL THEN NULL
           ELSE Formula(ParseFloat(match.length), ParseFloat(match.height),
                        pieces, DetailDivisor(unit))

InitDetail ==
  /\ detailPage = "closed"
  /\ detailLoading = TRUE
  /\ detailError = ""
  /\ detailProduct = NULL
  /\ quantityFormula = NULL

\* the page /product/p1 is opened: first render, then the effect calls
\* fetchProduct, which runs up to the await of axios.get
OpenProductDetail ==
  /\ detailPage # "fetching"
  /\ detailPage' = "fetching"
  /\ detailLoading' = TRUE
  /\ detailError' = ""
  /\ detailProduct' = NULL
  /\ quantityFormula' = NULL
  /\ failed' = failed \ {"ProductDetail.fetchProduct"}
  /\ UNCHANGED <<widgetVars,
                 formVars, submitVars, product, pageVars>>

\* fetchProduct after the await, response.data.success with data[0]
FetchProductSucceeds ==
  /\ detailPage = "fetching"
  /\ product # NULL
  /\ detailPage' = "done"
  /\ detailLoading' = FALSE
  /\ LET processed == [product EXCEPT
                         !.sizeUnit = IF product.sizeUnit = "" THEN "inches"
                                      ELSE product.sizeUnit]
     IN  /\ detailProduct' = processed
         /\ quantityFormula' =
              IF processed.size # <<>> /\ processed.numberOfPieces # <<>>
              THEN CalculateQuantityFormula(processed.size, processed.sizeUnit,
                                            NumberOf(processed.numberOfPieces))
              ELSE quantityFormula
  /\ UNCHANGED <<widgetVars,
                 detailError, formVars, submitVars, product, pageVars, failed>>

\* fetchProduct after the await, no success or no data[0] (the else branch
\* throws) or axios.get rejected: the catch sets error
FetchProductFails ==
  /\ detailPage = "fetching"
  /\ \E o \in Outcomes \ {"success"} :
       detailError' = IF o = "noSuccess" THEN "No data found"
                      ELSE "Network Error"
  /\ detailPage' = "done"
  /\ detailLoading' = FALSE
  /\ failed' = failed \cup {"ProductDetail.fetchProduct"}
  /\ UNCHANGED <<widgetVars,
                 detailProduct, quantityFormula, formVars, submitVars, product,
                 pageVars>>

\* -------------------------------------------------------------------------
\* Feeder pages: Products, AllQR, EditProduct
\* -------------------------------------------------------------------------
ProductIds == {"p1", "p2"}

\* what the price input (type="number") may hold
PriceTexts == {<<>>, <<"0">>, <<"5">>, <<"7">>}

\* the backend's list before any update
InitServerProducts == {[postId |-> id, price |-> 5] : id \in ProductIds}

\* products.map(p => p.postId === id ? { ...p, price } : p)
WithPrice(products, id, price) ==
  {IF pr.postId = id THEN [pr EXCEPT !.price = price] ELSE pr : pr \in products}

\* Products after its first render and the effect's call of fetchProducts,
\* which runs up to the await of axios.get
ProductsMounted ==
  [loading |-> TRUE, products |-> {}, editLoading |-> "", alert |-> "",
   fetch |-> "pending", edit |-> ""]

\* AllQR after its first render and the effect's call of fetchProducts
AllQRMounted ==
  [loading |-> TRUE, products |-> {},
   priceValues |-> [id \in ProductIds |-> <<>>],
   updatingPrice |-> [id \in ProductIds |-> FALSE],
   toast |-> NULL, fetch |-> "pending",
   update |-> {}]

\* EditProduct after its first render and the effect's call of fetchProduct
EditMounted ==
  [loading |-> TRUE, error |-> "", product |-> NULL, fetch |-> "pending"]

\* what each page renders
ProductsView ==
  IF productsPg.loading THEN "spinner"
  ELSE IF productsPg.products = {} THEN "No products found"
  ELSE "grid"

AllQRView ==
  IF allQR.loading THEN "spinner"
  ELSE IF allQR.products = {} THEN "No products found"
  ELSE "list"

EditView ==
  IF editPg.loading THEN "spinner"
  ELSE IF editPg.error # "" THEN "Error Loading Product"
  ELSE IF editPg.product = NULL THEN "Product Not Found"
  ELSE "form"

InitPages ==
  /\ page = "products"
  /\ productsPg = ProductsMounted
  /\ allQR = NULL
  /\ editPg = NULL
  /\ serverProducts = InitServerProducts

\* Products.fetchProducts after the await, response.data.success true
ProductsFetchSucceeds ==
  /\ page = "products" /\ productsPg.fetch = "pending"
  /\ productsPg' = [productsPg EXCEPT !.products = serverProducts,
                                      !.loading = FALSE, !.fetch = "done"]
  /\ UNCHANGED <<widgetVars,
                 page, allQR, editPg, serverProducts, failed, formVars,
                 submitVars, product, detailVars>>

\* Products.fetchProducts after the await, no success flag (the if is
\* skipped) or axios.get rejected (the catch logs to the console)
ProductsFetchFails ==
  /\ page = "products" /\ productsPg.fetch = "pending"
  /\ \E o \in Outcomes \ {"success"} :
       productsPg' = [productsPg EXCEPT !.loading = FALSE, !.fetch = "done"]
  /\ failed' = failed \cup {"Products.fetchProducts"}
  /\ UNCHANGED <<widgetVars,
                 page, allQR, editPg, serverProducts, formVars, submitVars,
                 product, detailVars>>

\* Products.handleEdit up to the await; the card's button is disabled while
\* editLoading names its product
HandleEditStart ==
  /\ page = "products" /\ ProductsView = "grid"
  /\ \E pr \in productsPg.products :
       /\ productsPg.editLoading # pr.postId
       /\ productsPg' = [productsPg EXCEPT !.editLoading = pr.postId,
                                           !.edit = pr.postId,
                                           !.alert = ""]
  /\ failed' = failed \ {"Products.handleEdit"}
  /\ UNCHANGED <<widgetVars,
                 page, allQR, editPg, serverProducts, formVars, submitVars,
                 product, detailVars>>

\* Products.handleEdit after the await, success: router.push to the edit
\* page, which unmounts Products and mounts EditProduct
HandleEditSucceeds ==
  /\ page = "products" /\ productsPg.edit # ""
  /\ page' = "edit-product"
  /\ productsPg' = NULL
  /\ editPg' = EditMounted
  /\ failed' = failed \ {"EditProduct.fetchProduct"}
  /\ UNCHANGED <<widgetVars,
                 allQR, serverProducts, formVars, submitVars, product,
                 detailVars>>

\* Products.handleEdit after the await, no success (throws) or rejected:
\* the catch raises the alert, the finally clears editLoading
HandleEditFails ==
  /\ page = "products" /\ productsPg.edit # ""
  /\ \E o \in Outcomes \ {"success"} :
       productsPg' = [productsPg EXCEPT
                        !.alert = "Unable to edit product at this time",
                        !.editLoading = "", !.edit = ""]
  /\ failed' = failed \cup {"Products.handleEdit"}
  /\ UNCHANGED <<widgetVars,
                 page, allQR, editPg, serverProducts, formVars, submitVars,
                 product, detailVars>>

\* the List button of Products: router.push("/all-qr")
GoToAllQR ==
  /\ page = "products" /\ ~productsPg.loading
  /\ page' = "all-qr"
  /\ productsPg' = NULL
  /\ allQR' = AllQRMounted
  /\ failed' = failed \ {"AllQR.fetchProducts", "AllQR.updatePrice"}
  /\ generatingQR' = [id \in ProductIds |-> FALSE]
  /\ UNCHANGED <<qrGenerator, cardOps, download, visualizer, standaloneVars,
                 editPg, serverProducts, formVars, submitVars, product,
                 detailVars>>

\* the Grid button of AllQR, or Go Back on the edit page:
\* router.push("/products")
GoToProducts ==
  /\ \/ page = "all-qr" /\ ~allQR.loading
     \/ page = "edit-product" /\ EditView \in {"Error Loading Product",
                                               "Product Not Found"}
  /\ page' = "products"
  /\ allQR' = NULL
  /\ editPg' = NULL
  /\ productsPg' = ProductsMounted
  /\ failed' = failed \ {"Products.fetchProducts", "Products.handleEdit"}
  /\ UNCHANGED <<widgetVars,
                 serverProducts, formVars, submitVars, product, detailVars>>

\* AllQR.fetchProducts after the await, response.data.success true
AllQRFetchSucceeds ==
  /\ page = "all-qr" /\ allQR.fetch = "pending"
  /\ allQR' = [allQR EXCEPT
                 !.products = serverProducts,
                 !.priceValues =
                   [id \in ProductIds |->
                      IF \E pr \in serverProducts : pr.postId = id
                      THEN IntText((CHOOSE pr \in serverProducts :
                                      pr.postId = id).price)
                      ELSE <<>>],
                 !.loading = FALSE, !.fetch = "done"]
  /\ UNCHANGED <<widgetVars,
                 page, productsPg, editPg, serverProducts, failed, formVars,
                 submitVars, product, detailVars>>

\* AllQR.fetchProducts after the await, no success flag or rejected
AllQRFetchFails ==
  /\ page = "all-qr" /\ allQR.fetch = "pending"
  /\ \E o \in Outcomes \ {"success"} :
       allQR' = [allQR EXCEPT !.loading = FALSE, !.fetch = "done"]
  /\ failed' = failed \cup {"AllQR.fetchProducts"}
  /\ UNCHANGED <<widgetVars,
                 page, productsPg, editPg, serverProducts, formVars,
                 submitVars, product, detailVars>>

\* AllQR.handlePriceChange
HandlePriceChange ==
  /\ page = "all-qr" /\ AllQRView = "list"
  /\ \E pr \in allQR.products, t \in PriceTexts :
       /\ allQR.priceValues[pr.postId] # t
       /\ allQR' = [allQR EXCEPT !.priceValues[pr.postId] = t]
  /\ UNCHANGED <<widgetVars,
                 page, productsPg, editPg, serverProducts, failed, formVars,
                 submitVars, product, detailVars>>

\* AllQR.updatePrice up to the await: an invalid price raises a toast and
\* returns through the finally block, which clears updatingPrice[productId];
\* otherwise the request leaves with the price and with the products of the
\* render whose handler was called.  The Update button is disabled while
\* updatingPrice[productId], the Enter key of the input is not.
UpdatePriceStart ==
  /\ page = "all-qr" /\ AllQRView = "list"
  /\ \E pr \in allQR.products :
       LET id == pr.postId
           newPrice == allQR.priceValues[id]
           n == NumberOf(newPrice)
       IN  IF newPrice = <<>> \/ IsNaN(n) \/ n.num <= 0
           THEN /\ allQR' = [allQR EXCEPT
                               !.toast = [type |-> "error",
                                          text |-> "Please enter a valid price"],
                               !.updatingPrice[id] = FALSE]
                /\ UNCHANGED failed
           ELSE /\ Cardinality(allQR.update) < MaxInFlight
                /\ allQR' = [allQR EXCEPT
                               !.updatingPrice[id] = TRUE,
                               !.update = @ \cup {[productId |-> id,
                                                   price |-> n.num,
                                                   products |-> allQR.products]}]
                /\ failed' = failed \ {"AllQR.updatePrice"}
  /\ UNCHANGED <<widgetVars,
                 page, productsPg, editPg, serverProducts, formVars,
                 submitVars, product, detailVars>>

\* AllQR.updatePrice after the await, response.data.success true
UpdatePriceSucceeds ==
  /\ page = "all-qr"
  /\ \E req \in allQR.update :
       /\ serverProducts' = WithPrice(serverProducts, req.productId, req.price)
       /\ allQR' = [allQR EXCEPT
                      !.products = WithPrice(req.products, req.productId,
                                             req.price),
                      !.toast = [type |-> "success",
                                 text |-> "Price updated successfully"],
                      !.updatingPrice[req.productId] = FALSE,
                      !.update = @ \ {req}]
  /\ UNCHANGED <<widgetVars,
                 page, productsPg, editPg, failed, formVars, submitVars,
                 product, detailVars>>

\* AllQR.updatePrice after the await, no success flag (else branch) or
\* rejected (catch): both raise an error toast
UpdatePriceFails ==
  /\ page = "all-qr"
  /\ \E req \in allQR.update, o \in Outcomes \ {"success"} :
       allQR' = [allQR EXCEPT
                   !.toast = [type |-> "error",
                              text |-> IF o = "noSuccess"
                                       THEN "Failed to update price"
                                       ELSE "Failed to update price. Please try again."],
                   !.updatingPrice[req.productId] = FALSE,
                   !.update = @ \ {req}]
  /\ failed' = failed \cup {"AllQR.updatePrice"}
  /\ UNCHANGED <<widgetVars,
                 page, productsPg, editPg, serverProducts, formVars,
                 submitVars, product, detailVars>>

\* EditProduct.fetchProduct after the await, success with data[0]
EditFetchSucceeds ==
  /\ page = "edit-product" /\ editPg.fetch = "pending"
  /\ editPg' = [editPg EXCEPT !.product = [postId |-> "p1"], !.loading = FALSE,
                              !.fetch = "done"]
  /\ UNCHANGED <<widgetVars,
                 page, productsPg, allQR, serverProducts, failed, formVars,
                 submitVars, product, detailVars>>

\* EditProduct.fetchProduct after the await, no success or no data[0] (else
\* branch) or rejected (catch): both set error
EditFetchFails ==
  /\ page = "edit-product" /\ editPg.fetch = "pending"
  /\ \E o \in Outcomes \ {"success"} :
       editPg' = [editPg EXCEPT
                    !.error = IF o = "noSuccess"
                              THEN "Failed to fetch product details"
                              ELSE "Network Error",
                    !.loading = FALSE, !.fetch = "done"]
  /\ failed' = failed \cup {"EditProduct.fetchProduct"}
  /\ UNCHANGED <<widgetVars,
                 page, productsPg, allQR, serverProducts, formVars,
                 submitVars, product, detailVars>>

\* -------------------------------------------------------------------------
\* QR cards: QRCodeGenerator (one hidden canvas in the DOM, reached through
\* canvasRef) and AllQR.generateAndDownloadQR (one canvas per call)
\* -------------------------------------------------------------------------

\* QRCode.toDataURL of the product's URL
QRCodeDataUrl(productId) == [kind |-> "qr", productId |-> productId]

\* canvas.toDataURL: the picture is what has been drawn since the canvas was
\* last sized
CanvasDataUrl(layers) == [kind |-> "card", layers |-> layers]

\* ctx.drawImage(templateImage, ...)
DrawTemplate(layers) == Append(layers, [layer |-> "template"])

\* ctx.drawImage(qrCode, ...) followed by the fillText calls of the name
DrawQRAndName(layers, productId) ==
  layers \o <<[layer |-> "qr", productId |-> productId],
              [layer |-> "name", productId |-> productId]>>

\* the stages at which a generation has nothing left to run
EndedStages == {"composed", "fallback", "qrError", "returned", "thrown"}

\* the stages at which a generation holds a canvas and its 2D context in the
\* closures of its load callbacks
HoldingStages == {"template", "qr"}

\* QRCodeGenerator after its first render: useState("") and useState(true)
QRGeneratorMounted ==
  [mounted |-> TRUE, productId |-> "p1", isGenerating |-> TRUE,
   qrCodeUrl |-> NULL, canvas |-> <<>>, generations |-> <<>>]

\* a state setter of QRCodeGenerator: React drops it once the component is
\* unmounted
SetIsGenerating(g, value) ==
  IF g.mounted THEN [g EXCEPT !.isGenerating = value] ELSE g

SetQrCodeUrl(g, url) ==
  IF g.mounted THEN [g EXCEPT !.qrCodeUrl = url] ELSE g

\* generateQRCode up to the await of QRCode.toDataURL
GenerateQRCodeStart(g) ==
  [SetIsGenerating(g, TRUE) EXCEPT
     !.generations = Append(@, [productId |-> g.productId,
                                stage |-> "toDataURL", canvas |-> NULL])]

notGenerator == <<formVars, submitVars, product, detailVars, pageVars,
                  cardVars, visualizer, failed,
                   standaloneVars>>

\* useEffect(() => generateQRCode(), [productId]) on mount
QRGeneratorEffect ==
  /\ qrGenerator.mounted /\ qrGenerator.generations = <<>>
  /\ qrGenerator' = GenerateQRCodeStart(qrGenerator)
  /\ UNCHANGED notGenerator

\* the parent renders the component with another productId: the effect runs
\* again while earlier generations may still wait for their images
QRGeneratorProductIdChanges ==
  /\ qrGenerator.mounted
  /\ qrGenerator.generations # <<>>
  /\ Len(qrGenerator.generations) < MaxGenerations
  /\ \E id \in ProductIds \ {qrGenerator.productId} :
       qrGenerator' = GenerateQRCodeStart([qrGenerator EXCEPT !.productId = id])
  /\ UNCHANGED notGenerator

\* the component is removed from the page; canvasRef.current becomes null
QRGeneratorUnmounts ==
  /\ qrGenerator.mounted
  /\ qrGenerator.generations # <<>>
  /\ qrGenerator' = [qrGenerator EXCEPT !.mounted = FALSE]
  /\ UNCHANGED notGenerator

\* generateQRCode after the await: canvasRef.current, getContext("2d"),
\* canvas.width = 600 (which clears the canvas), template image requested
QRToDataURLResolves ==
  /\ \E i \in DOMAIN qrGenerator.generations, ctxAvailable \in BOOLEAN :
       /\ qrGenerator.generations[i].stage = "toDataURL"
       /\ qrGenerator' =
            IF ~qrGenerator.mounted \/ ~ctxAvailable
            THEN [qrGenerator EXCEPT !.generations[i].stage = "returned"]
            ELSE [qrGenerator EXCEPT
                    !.canvas = <<>>,
                    !.generations[i].stage = "template",
                    !.generations[i].canvas =
                       [element |-> "canvasRef.current"]]
  /\ UNCHANGED notGenerator

\* QRCode.toDataURL rejects: the catch block
QRToDataURLRejects ==
  /\ \E i \in DOMAIN qrGenerator.generations :
       /\ qrGenerator.generations[i].stage = "toDataURL"
       /\ qrGenerator' =
            [SetIsGenerating(qrGenerator, FALSE) EXCEPT
               !.generations[i].stage = "thrown"]
  /\ UNCHANGED notGenerator

\* templateImage.onload: draws the template, requests the QR image
QRTemplateOnLoad ==
  /\ \E i \in DOMAIN qrGenerator.generations :
       /\ qrGenerator.generations[i].stage = "template"
       /\ qrGenerator' = [qrGenerator EXCEPT
                            !.canvas = DrawTemplate(@),
                            !.generations[i].stage = "qr"]
  /\ UNCHANGED notGenerator

\* templateImage.onerror: falls back to the bare QR code
QRTemplateOnError ==
  /\ \E i \in DOMAIN qrGenerator.generations :
       /\ qrGenerator.generations[i].stage = "template"
       /\ qrGenerator' =
            [SetIsGenerating(
               SetQrCodeUrl(qrGenerator,
                            QRCodeDataUrl(qrGenerator.generations[i].productId)),
               FALSE)
             EXCEPT !.generations[i].stage = "fallback"]
  /\ UNCHANGED notGenerator

\* qrCode.onload: draws the QR code and the name, publishes the card
QRCodeOnLoad ==
  /\ \E i \in DOMAIN qrGenerator.generations :
       LET drawn == DrawQRAndName(qrGenerator.canvas,
                                  qrGenerator.generations[i].productId)
       IN  /\ qrGenerator.generations[i].stage = "qr"
           /\ qrGenerator' =
                [SetIsGenerating(SetQrCodeUrl(qrGenerator, CanvasDataUrl(drawn)),
                                 FALSE)
                 EXCEPT !.canvas = drawn,
                        !.generations[i].stage = "composed"]
  /\ UNCHANGED notGenerator

\* the QR image fails to load: generateQRCode sets no qrCode.onerror
QRCodeLoadFails ==
  /\ \E i \in DOMAIN qrGenerator.generations :
       /\ qrGenerator.generations[i].stage = "qr"
       /\ qrGenerator' = [qrGenerator EXCEPT !.generations[i].stage = "qrError"]
  /\ UNCHANGED notGenerator

\* AllQR before any QR button is pressed
NoCard == [stage |-> "idle", canvas |-> NULL, layers |-> <<>>]

InitCards ==
  /\ generatingQR = [id \in ProductIds |-> FALSE]
  /\ cardOps = [id \in ProductIds |-> NoCard]
  /\ download = NULL

notCards == <<formVars, submitVars, product, detailVars, page, productsPg,
              editPg, serverProducts, qrGenerator, visualizer, failed,
               standaloneVars>>

\* generateAndDownloadQR up to the await; the QR button of a product is
\* disabled while generatingQR[product.postId]
GenerateAndDownloadQRStart ==
  /\ page = "all-qr" /\ AllQRView = "list"
  /\ \E pr \in allQR.products :
       /\ ~generatingQR[pr.postId]
       /\ generatingQR' = [generatingQR EXCEPT ![pr.postId] = TRUE]
       /\ cardOps' = [cardOps EXCEPT
                        ![pr.postId] = [NoCard EXCEPT !.stage = "toDataURL"]]
  /\ UNCHANGED <<allQR, download, notCards>>

\* the catch block of generateAndDownloadQR
CardCaught(id) ==
  /\ allQR' = [allQR EXCEPT !.toast = [type |-> "error",
                                       text |-> "Failed to generate QR code"]]
  /\ generatingQR' = [generatingQR EXCEPT ![id] = FALSE]
  /\ cardOps' = [cardOps EXCEPT ![id].stage = "thrown"]
  /\ UNCHANGED <<download, notCards>>

\* generateAndDownloadQR after the await: a canvas of its own, getContext,
\* template image requested; no context throws into the catch block
CardToDataURLResolves ==
  /\ page = "all-qr"
  /\ \E id \in ProductIds, ctxAvailable \in BOOLEAN :
       /\ cardOps[id].stage = "toDataURL"
       /\ IF ctxAvailable
          THEN /\ cardOps' = [cardOps EXCEPT
                                ![id] = [stage |-> "template",
                                         canvas |->
                                           [element |-> "createElement",
                                            call |-> id],
                                         layers |-> <<>>]]
               /\ UNCHANGED <<allQR, generatingQR, download, notCards>>
          ELSE CardCaught(id)

\* QRCode.toDataURL rejects
CardToDataURLRejects ==
  /\ page = "all-qr"
  /\ \E id \in ProductIds :
       /\ cardOps[id].stage = "toDataURL"
       /\ CardCaught(id)

\* templateImage.onload
CardTemplateOnLoad ==
  /\ page = "all-qr"
  /\ \E id \in ProductIds :
       /\ cardOps[id].stage = "template"
       /\ cardOps' = [cardOps EXCEPT ![id].layers = DrawTemplate(@),
                                     ![id].stage = "qr"]
  /\ UNCHANGED <<allQR, generatingQR, download, notCards>>

\* templateImage.onerror
CardTemplateOnError ==
  /\ page = "all-qr"
  /\ \E id \in ProductIds :
       /\ cardOps[id].stage = "template"
       /\ generatingQR' = [generatingQR EXCEPT ![id] = FALSE]
       /\ allQR' = [allQR EXCEPT
                      !.toast = [type |-> "error",
                                 text |-> "Failed to load template image"]]
       /\ cardOps' = [cardOps EXCEPT ![id].stage = "fallback"]
  /\ UNCHANGED <<download, notCards>>

\* qrCode.onload: draws, hands the file to the browser, clears the flag
CardQROnLoad ==
  /\ page = "all-qr"
  /\ \E id \in ProductIds :
       LET drawn == DrawQRAndName(cardOps[id].layers, id)
       IN  /\ cardOps[id].stage = "qr"
           /\ cardOps' = [cardOps EXCEPT ![id].layers = drawn,
                                         ![id].stage = "composed"]
           /\ download' = [file |-> <<"evershine-product-", id, ".png">>,
                           href |-> CanvasDataUrl(drawn)]
           /\ generatingQR' = [generatingQR EXCEPT ![id] = FALSE]
  /\ UNCHANGED <<allQR, notCards>>

\* qrCode.onerror
CardQROnError ==
  /\ page = "all-qr"
  /\ \E id \in ProductIds :
       /\ cardOps[id].stage = "qr"
       /\ generatingQR' = [generatingQR EXCEPT ![id] = FALSE]
       /\ allQR' = [allQR EXCEPT
                      !.toast = [type |-> "error",
                                 text |-> "Failed to generate QR code"]]
       /\ cardOps' = [cardOps EXCEPT ![id].stage = "qrError"]
  /\ UNCHANGED <<download, notCards>>

\* -------------------------------------------------------------------------
\* ProductVisualizer: mockup preloading, the loading timer and the
\* bookmatched texture
\* -------------------------------------------------------------------------

\* the ids of MOCKUPS
MockupIds == {"bathroom", "modern-bedroom", "living-room", "bedroom-green",
              "luxury-living", "minimalist"}

\* product image URLs, one external and one local
ExternalImage == <<"h", "t", "t", "p", ":", "/", "a">>

LocalImage == <<"/", "b">>

ProductImages == {ExternalImage, LocalImage}

\* width and height of the loaded product image: the two special squares, a
\* nearly square one, another square and an oblong one
ImageSizes == {<<488, 488>>, <<646, 646>>, <<500, 510>>, <<490, 490>>,
               <<800, 400>>}

\* String.prototype.startsWith
StartsWith(s, prefix) ==
  /\ Len(s) >= Len(prefix)
  /\ SubSeq(s, 1, Len(prefix)) = prefix

\* encodeURIComponent on the characters that occur in ProductImages
EncodeURIComponent(s) ==
  [i \in DOMAIN s |-> CASE s[i] = ":" -> "%3A"
                        [] s[i] = "/" -> "%2F"
                        [] OTHER -> s[i]]

\* the src given to the image element of createBookmatchedTexture
TextureSrc(imageUrl) ==
  IF StartsWith(imageUrl, <<"h", "t", "t", "p">>)
  THEN <<"/api/proxy-image?url=">> \o EncodeURIComponent(imageUrl)
  ELSE imageUrl

\* isExactSquare488 || isExactSquare646
IsExactSquare(w, h) == (w = 488 /\ h = 488) \/ (w = 646 /\ h = 646)

\* Math.abs(originalWidth - originalHeight) < 20
IsNearlySquare(w, h) == Abs(w - h) < 20

\* a grid of four cells a side for every image
GridSizeFourOnly(w, h) == 4

\* the grid of createBookmatchedTexture: 2x2 for the 488 and 646 squares,
\* 4x4 otherwise (nearly square and oblong images alike)
GridSize(w, h) == IF IsExactSquare(w, h) THEN 2 ELSE 4

\* ctx.drawImage(img, dx, dy, w, h) under translate(tx, ty) and
\* scale(sx, sy), sx and sy being 1 or -1: the rectangle of the canvas that
\* the image covers, and whether it appears mirrored along each axis
DrawImage(tx, ty, sx, sy, dx, dy, w, h) ==
  LET x0 == tx + sx * dx
      x1 == tx + sx * (dx + w)
      y0 == ty + sy * dy
      y1 == ty + sy * (dy + h)
  IN  [left |-> IF x0 < x1 THEN x0 ELSE x1,
       right |-> IF x0 < x1 THEN x1 ELSE x0,
       top |-> IF y0 < y1 THEN y0 ELSE y1,
       bottom |-> IF y0 < y1 THEN y1 ELSE y0,
       flipX |-> sx = -1, flipY |-> sy = -1]

\* the four drawImage calls of the 2x2 branch, on a canvas of 2w x 2h
Tiles2x2(w, h) ==
  {DrawImage(0, 0, 1, 1, 0, 0, w, h),
   DrawImage(2 * w, 0, -1, 1, 0, 0, w, h),
   DrawImage(0, 2 * h, 1, -1, 0, 0, w, h),
   DrawImage(2 * w, 2 * h, -1, -1, 0, 0, w, h)}

\* the non-square loop with every cell drawn unmirrored
TilesNonSquareUnflipped(w, h) ==
  {DrawImage(0, 0, 1, 1, x * w, y * h, w, h) : x \in 0..3, y \in 0..3}

\* the loop of the nearly-square branch: one translate and one scale per
\* cell, built from flipX = x % 2 === 1 and flipY = y % 2 === 1
TilesNearlySquare(w, h) ==
  {LET flipX == x % 2 = 1
       flipY == y % 2 = 1
   IN  DrawImage(x * w + (IF flipX THEN w ELSE 0),
                 y * h + (IF flipY THEN h ELSE 0),
                 IF flipX THEN -1 ELSE 1, IF flipY THEN -1 ELSE 1,
                 0, 0, w, h) : x \in 0..3, y \in 0..3}

\* the loop of the non-square branch: four cases per cell
TilesNonSquare(w, h) ==
  {LET flipHorizontal == x % 2 = 1
       flipVertical == y % 2 = 1
       posX == x * w
       posY == y * h
   IN  IF flipHorizontal /\ flipVertical
       THEN DrawImage(posX + w, posY + h, -1, -1, 0, 0, w, h)
       ELSE IF flipHorizontal
       THEN DrawImage(posX + w, posY, -1, 1, 0, 0, w, h)
       ELSE IF flipVertical
       THEN DrawImage(posX, posY + h, 1, -1, 0, 0, w, h)
       ELSE DrawImage(0, 0, 1, 1, posX, posY, w, h) : x \in 0..3, y \in 0..3}

\* the branch that img.onload takes for an image of w x h
Tiles(w, h) ==
  IF IsExactSquare(w, h) THEN Tiles2x2(w, h)
  ELSE IF IsNearlySquare(w, h) THEN TilesNearlySquare(w, h)
  ELSE TilesNonSquare(w, h)

\* canvas.toDataURL of the tiled canvas; source is the size of the image
\* that was tiled
BookmatchedTexture(imageUrl, w, h) ==
  [kind |-> "bookmatched", image |-> imageUrl, source |-> <<w, h>>,
   width |-> w * GridSize(w, h), height |-> h * GridSize(w, h),
   tiles |-> Tiles(w, h)]

\* a background size that follows the canvas
BackgroundSizeOfCanvas(w, h) == <<w * GridSize(w, h), h * GridSize(w, h)>>

\* setBackgroundSize(`${originalWidth * 2}px ${originalHeight * 2}px`), the
\* same statement in the three branches
BackgroundSize(w, h) == <<w * 2, h * 2>>

\* img.onerror with the src of the image element in place of imageUrl
FallbackTextureSrc(imageUrl, src) == [kind |-> "url", url |-> src]

\* img.onerror: bookmatchedTextureRef.current = imageUrl
FallbackTexture(imageUrl, src) == [kind |-> "url", url |-> imageUrl]

\* ProductVisualizer after its first render, before its effects run
VisualizerMounted ==
  [productImage |-> ExternalImage, loading |-> TRUE, textureReady |-> FALSE,
   allMockupsLoaded |-> FALSE, bookmatchedTextureRef |-> NULL,
   backgroundSize |-> <<400, 400>>, timer |-> "unset",
   batches |-> <<>>, textures |-> <<>>]

InitWidgets ==
  /\ qrGenerator = QRGeneratorMounted
  /\ InitCards
  /\ visualizer = VisualizerMounted

\* const showLoading = loading || !textureReady || !allMockupsLoaded
ShowLoading == visualizer.loading \/ ~visualizer.textureReady
                 \/ ~visualizer.allMockupsLoaded

\* the preload effect: six image loads under one Promise.all; each batch
\* keeps the mockups whose load is still pending
PreloadMockups(v) == [v EXCEPT !.batches = Append(@, MockupIds)]

\* createBookmatchedTexture(imageUrl) up to the request of the image
CreateBookmatchedTexture(v, imageUrl) ==
  IF v.bookmatchedTextureRef # NULL
  THEN [v EXCEPT !.textureReady = TRUE]
  ELSE [v EXCEPT !.textures = Append(@, [imageUrl |-> imageUrl,
                                         src |-> TextureSrc(imageUrl),
                                         stage |-> "loading"])]

notVisualizer == <<formVars, submitVars, product, detailVars, pageVars,
                   qrGenerator, cardVars, failed,
                    standaloneVars>>

\* the three effects after the first render
VisualizerMountEffects ==
  /\ visualizer.batches = <<>>
  /\ visualizer' =
       [CreateBookmatchedTexture(PreloadMockups(visualizer),
                                 visualizer.productImage)
        EXCEPT !.timer = "set"]
  /\ UNCHANGED notVisualizer

\* the parent passes another productImage: the effects that depend on it run
\* again; the earlier loads are not cancelled
ProductImageChanges ==
  /\ visualizer.batches # <<>>
  /\ Len(visualizer.batches) < MaxRenders
  /\ \E url \in ProductImages \ {visualizer.productImage} :
       visualizer' =
         CreateBookmatchedTexture(
           PreloadMockups([visualizer EXCEPT !.productImage = url]), url)
  /\ UNCHANGED notVisualizer

\* a mockup load of batch b settles; when it is the last of its batch the
\* Promise.all continuation runs before any other callback
MockupSettles(b, id) ==
  /\ id \in visualizer.batches[b]
  /\ visualizer' =
       [visualizer EXCEPT
          !.batches[b] = @ \ {id},
          !.allMockupsLoaded = @ \/ visualizer.batches[b] = {id}]
  /\ UNCHANGED notVisualizer

\* img.onload of preloadImage
MockupOnLoad ==
  \E b \in DOMAIN visualizer.batches, id \in MockupIds : MockupSettles(b, id)

\* img.onerror of preloadImage: resolves the promise all the same
MockupOnError ==
  \E b \in DOMAIN visualizer.batches, id \in MockupIds : MockupSettles(b, id)

\* the 500 ms timer of the third effect
LoadingTimerFires ==
  /\ visualizer.timer = "set"
  /\ visualizer' = [visualizer EXCEPT !.loading = FALSE, !.timer = "fired"]
  /\ UNCHANGED notVisualizer

\* img.onload of createBookmatchedTexture: without a 2D context it only
\* logs; otherwise it tiles the image and stores the texture
TextureOnLoad ==
  /\ \E i \in DOMAIN visualizer.textures, ctxAvailable \in BOOLEAN,
        wh \in ImageSizes :
       LET op == visualizer.textures[i]
       IN  /\ op.stage = "loading"
           /\ visualizer' =
                IF ~ctxAvailable
                THEN [visualizer EXCEPT !.textures[i].stage = "noContext"]
                ELSE [visualizer EXCEPT
                        !.bookmatchedTextureRef =
                           BookmatchedTexture(op.imageUrl, wh[1], wh[2]),
                        !.backgroundSize = BackgroundSize(wh[1], wh[2]),
                        !.textureReady = TRUE,
                        !.textures[i].stage = "loaded"]
  /\ UNCHANGED notVisualizer

\* img.onerror of createBookmatchedTexture
TextureOnError ==
  /\ \E i \in DOMAIN visualizer.textures :
       LET op == visualizer.textures[i]
       IN  /\ op.stage = "loading"
           /\ visualizer' =
                [visualizer EXCEPT
                   !.bookmatchedTextureRef = FallbackTexture(op.imageUrl, op.src),
                   !.textureReady = TRUE,
                   !.textures[i].stage = "failed"]
  /\ UNCHANGED notVisualizer

\* -------------------------------------------------------------------------
\* The name under the QR code: the wrapping loop of qrCode.onload, the same
\* in QRCodeGenerator and in AllQR.generateAndDownloadQR.  The words of the
\* capitalised name are numbered 1..words; a line is the pair <<from, to>> of
\* the words it holds, or <<>> while it is the empty string.
\* -------------------------------------------------------------------------

\* const maxLines = 3
maxLines == 3

\* const textY = 810
textY == 810

\* the lines that the loop can measure for a name of n words
LinesOf(n) == {l \in (1..n) \X (1..n) : l[1] <= l[2]}

\* line + words[i] + " "
TestLine(line, k) == IF line = <<>> THEN <<k, k>> ELSE <<line[1], k>>

\* ctx.fillText(text, qrCodeCenterX, y)
FillText(w, line, ellipsis) ==
  Append(w.drawn, [line |-> line, ellipsis |-> ellipsis, y |-> w.y])

\* before the loop: line = "", y = textY, lineCount = 0; wide holds the
\* lines for which ctx.measureText gives more than maxWidth
WrapStart(n, wide) ==
  [words |-> n, wide |-> wide, k |-> 1, line |-> <<>>, y |-> textY,
   lineCount |-> 0, drawn |-> <<>>, pc |-> "loop"]

\* no name is being drawn
NoWrap == [pc |-> "idle"]

\* one iteration of the for loop, for the word k
WrapIteration(w) ==
  IF w.lineCount >= maxLines - 1 /\ w.k < w.words
  THEN [w EXCEPT !.drawn = FillText(w, w.line, TRUE), !.pc = "after"]
  ELSE LET testLine == TestLine(w.line, w.k)
           next == IF testLine \in w.wide /\ w.k > 1
                   THEN [w EXCEPT !.drawn = FillText(w, w.line, FALSE),
                                  !.line = <<w.k, w.k>>,
                                  !.y = @ + 20,
                                  !.lineCount = @ + 1]
                   ELSE [w EXCEPT !.line = testLine]
       IN  [next EXCEPT !.k = @ + 1,
                        !.pc = IF w.k = w.words THEN "after" ELSE "loop"]

\* after the loop: if (lineCount < maxLines) ctx.fillText(line, ...)
WrapAfter(w) ==
  [(IF w.lineCount < maxLines
    THEN [w EXCEPT !.drawn = FillText(w, w.line, FALSE)]
    ELSE w)
   EXCEPT !.pc = "done"]

\* the for loop reaches the word k
WrapWord ==
  /\ nameWrap.pc = "loop"
  /\ nameWrap' = WrapIteration(nameWrap)
  /\ UNCHANGED <<coreVars, authVars, imageVars, proxy, qrCall>>

\* the statement after the loop
WrapLastLine ==
  /\ nameWrap.pc = "after"
  /\ nameWrap' = WrapAfter(nameWrap)
  /\ UNCHANGED <<coreVars, authVars, imageVars, proxy, qrCall>>

\* -------------------------------------------------------------------------
\* ProtectedRoute, the feeder login state in localStorage, and the
\* navigation between the login page and the protected pages
\* -------------------------------------------------------------------------

\* the pages that FeederSidebar links to, each wrapped in a ProtectedRoute
ProtectedPaths == {"/products", "/add-product", "/all-qr"}

\* localStorage after logoutFeeder, or before any login
LoggedOut ==
  [isFeederAuthenticated |-> "", feederToken |-> "",
   feederRefreshToken |-> "", feederName |-> ""]

\* localStorage after the login page has stored a successful login
LoggedIn ==
  [isFeederAuthenticated |-> "true", feederToken |-> "access",
   feederRefreshToken |-> "refresh", feederName |-> "feeder"]

\* what localStorage may hold: the two above, and a login of which another
\* script or the user has removed the flag or the token
StorageStates ==
  {LoggedOut, LoggedIn,
   [LoggedIn EXCEPT !.feederToken = ""],
   [LoggedIn EXCEPT !.isFeederAuthenticated = ""]}

\* isFeederAuthenticated(), in the browser
IsFeederAuthenticated(st) ==
  st.isFeederAuthenticated = "true" /\ st.feederToken # ""

\* a page as the browser has just loaded it: a protected page starts with
\* the state of ProtectedRoute before its effect, useState(true) and
\* useState(false); push is the router.push not yet carried out; timer,
\* success and apiError are the redirect timer and the state of the login
\* page
PageLoaded(path) ==
  [path |-> path, isLoading |-> TRUE, isAuthenticated |-> FALSE,
   checked |-> FALSE, push |-> "", timer |-> FALSE, success |-> FALSE,
   apiError |-> ""]

\* what ProtectedRoute renders
ChildrenRendered ==
  /\ guard.path \in ProtectedPaths
  /\ ~guard.isLoading
  /\ guard.isAuthenticated

notAuth == <<coreVars, nameWrap, imageVars, proxy, qrCall>>

\* the effect of ProtectedRoute after mount
ProtectedRouteEffect ==
  /\ guard.path \in ProtectedPaths /\ ~guard.checked
  /\ LET authenticated == IsFeederAuthenticated(storage)
     IN  guard' = [guard EXCEPT
                     !.checked = TRUE,
                     !.isAuthenticated = authenticated,
                     !.push = IF authenticated THEN @ ELSE "/login",
                     !.isLoading = IF authenticated THEN FALSE ELSE @]
  /\ UNCHANGED <<storage, notAuth>>

\* FeederSidebar.handleLogout: logoutFeeder(), router.push("/login")
HandleLogout ==
  /\ guard.path \in ProtectedPaths
  /\ storage' = LoggedOut
  /\ guard' = [guard EXCEPT !.push = "/login"]
  /\ UNCHANGED notAuth

\* a link of FeederSidebar: router.push(href)
SidebarNavigate ==
  /\ guard.path \in ProtectedPaths
  /\ \E href \in ProtectedPaths \ {guard.path} :
       guard' = [guard EXCEPT !.push = href]
  /\ UNCHANGED <<storage, notAuth>>

\* the router carries out the last router.push: the page is replaced
NavigationCompletes ==
  /\ guard.push # ""
  /\ guard' = PageLoaded(guard.push)
  /\ UNCHANGED <<storage, notAuth>>

\* what a response with success: true may carry: the tokens and the
\* feeder, no data at all, or data without the feeder object
LoginResponses == {"data", "noData", "noFeeder"}

\* the localStorage.setItem calls of handleSubmit; data without a feeder
\* throws at response.data.feeder.name, after three keys are stored
StoreLogin(st, response) ==
  CASE response = "data" -> LoggedIn
    [] response = "noData" -> st
    [] response = "noFeeder" ->
         [st EXCEPT !.isFeederAuthenticated = "true",
                    !.feederToken = "access",
                    !.feederRefreshToken = "refresh"]

\* the login page, handleSubmit with response.success: reports success,
\* stores the login if there is data and starts the 2 s redirect timer; a
\* TypeError on the way goes to the catch
LoginSucceeds ==
  /\ guard.path = "/login" /\ ~guard.timer
  /\ \E response \in LoginResponses :
       /\ storage' = StoreLogin(storage, response)
       /\ guard' = IF response = "noFeeder"
                   THEN [guard EXCEPT
                           !.success = TRUE,
                           !.apiError = "Cannot read properties of undefined"]
                   ELSE [guard EXCEPT !.success = TRUE, !.apiError = "",
                                      !.timer = TRUE]
  /\ UNCHANGED notAuth

\* the login page, handleSubmit with a response without success, which
\* loginFeeder also returns when fetch fails: the catch sets apiError
LoginFails ==
  /\ guard.path = "/login" /\ ~guard.timer
  /\ \E msg \in {"Failed to login",
                 "An error occurred during login. Please try again."} :
       guard' = [guard EXCEPT !.apiError = msg]
  /\ UNCHANGED <<storage, notAuth>>

\* the redirect timer of the login page: router.push("/products")
LoginRedirect ==
  /\ guard.path = "/login" /\ guard.timer
  /\ guard' = [guard EXCEPT !.timer = FALSE, !.push = "/products"]
  /\ UNCHANGED <<storage, notAuth>>

\* localStorage is changed from outside the page: another tab logs in or
\* out, or keys are removed
StorageChanges ==
  /\ \E st \in StorageStates \ {storage} : storage' = st
  /\ UNCHANGED <<guard, notAuth>>

\* -------------------------------------------------------------------------
\* ProductForm: the image list.  A file is the number under which it was
\* chosen; its object URL is [blob |-> number]; an image that the server
\* already holds is [url |-> number].
\* -------------------------------------------------------------------------

\* initialData.image of a product with n images
ServerImages(n) == [k \in 1..n |-> [url |-> k]]

\* URL.createObjectURL(file)
CreateObjectURL(file) == [blob |-> file]

\* the numbers of the files that images or previews still mention
FilesInUse ==
  {images[i] : i \in DOMAIN images}
    \cup {previews[i].blob :
            i \in {j \in DOMAIN previews : "blob" \in DOMAIN previews[j]}}

\* the k files of one change event of the file input, not chosen before
ChosenFiles(k) ==
  LET used == FilesInUse \cup {0}
      last == CHOOSE n \in used : \A o \in used : o <= n
  IN  [i \in 1..k |-> last + i]

\* Array.prototype.splice(start, 1) on a copy: a negative start counts from
\* the end, a start past the end removes nothing
Splice1(seq, start) ==
  LET from == IF start < 0
              THEN (IF Len(seq) + start < 0 THEN 0 ELSE Len(seq) + start)
              ELSE start
  IN  IF from >= Len(seq) THEN seq
      ELSE [i \in 1..(Len(seq) - 1) |->
              IF i <= from THEN seq[i] ELSE seq[i + 1]]

\* the form of an empty create page, or of the edit page of a product with
\* n images after the effect that copies initialData.image into previews
InitImages(m, n) ==
  /\ initialImages = IF m = "edit" THEN ServerImages(n) ELSE <<>>
  /\ images = <<>>
  /\ newImageCount = 0
  /\ InitSubmit(m, IF m = "edit" THEN ServerImages(n) ELSE <<>>)

notImages == <<formVars, mode, formLoading, postId, qrCodeUrl, submitPending,
               product, detailVars, pageVars, qrGenerator, cardVars,
               visualizer, failed, nameWrap, authVars, initialImages, proxy,
               qrCall>>

\* handleImageChange with k files, of which one may fail validateImage for
\* its type or its size
HandleImageChange ==
  /\ \E k \in 1..MaxBatch, invalid \in {"", "type", "size"} :
       LET fileArray == ChosenFiles(k)
       IN  /\ fileArray[k] <= MaxFiles
           /\ IF Len(images) + Len(fileArray) > 10
              THEN /\ message' = ErrorMessage(
                          "You can only upload up to 10 images in total")
                   /\ UNCHANGED <<images, newImageCount, previews>>
              ELSE IF invalid # ""
              THEN /\ message' = ErrorMessage(
                          IF invalid = "type"
                          THEN "Invalid file type. Only JPG, PNG and WebP are allowed"
                          ELSE "File size too large. Maximum size is 5MB")
                   /\ UNCHANGED <<images, newImageCount, previews>>
              ELSE /\ images' = images \o fileArray
                   /\ newImageCount' = newImageCount + Len(fileArray)
                   /\ previews' = previews \o
                        [i \in 1..k |-> CreateObjectURL(fileArray[i])]
                   /\ UNCHANGED message
  /\ UNCHANGED notImages

\* removeImage(index), index counted from 0 over the previews shown
RemoveImage ==
  /\ \E index \in 0..(Len(previews) - 1) :
       IF mode = "edit" /\ index < Len(initialImages)
       THEN /\ previews' = Splice1(previews, index)
            /\ UNCHANGED <<images, newImageCount>>
       ELSE LET adjustedIndex == IF mode = "edit"
                                 THEN index - Len(initialImages)
                                 ELSE index
            IN  /\ images' = Splice1(images, adjustedIndex)
                /\ previews' = Splice1(previews, index)
                /\ newImageCount' = newImageCount - 1
  /\ UNCHANGED <<message, notImages>>

\* handleSubmit, the image part of the form data: the previews that are
\* among initialData.image go as existingImages, every file of images is
\* uploaded
ExistingImagesInPreviews ==
  SelectSeq(previews,
            LAMBDA url : \E i \in DOMAIN initialImages : initialImages[i] = url)

UploadedImages == images

\* -------------------------------------------------------------------------
\* The calls of QRCode.toDataURL.  A text is the sequence of its parts, so
\* that a template literal is a concatenation.
\* -------------------------------------------------------------------------

\* window.location of the pages tried: protocol, hostname and port
Locations ==
  [protocol : {"http:", "https:"},
   hostname : {"localhost", "evershine-agent.vercel.app"},
   port : {"", "3000"}]

\* typeof window === "undefined"
NoWindow == [window |-> "undefined"]

\* the postId of the products tried
PostIds == {"abc123", "p1", "p2"}

\* window.location.host: the hostname, and the port when there is one
LocationHost(loc) ==
  IF loc.port = "" THEN <<loc.hostname>> ELSE <<loc.hostname, ":", loc.port>>

\* window.location.origin
LocationOrigin(loc) == <<loc.protocol, "//">> \o LocationHost(loc)

\* baseUrl of a page that would keep the hostname only
BaseUrlFromHostname(w) ==
  IF w # NoWindow
  THEN <<w.protocol, "//", w.hostname>>
  ELSE <<"https:", "//", "evershine-agent.vercel.app">>

\* QRCodeGenerator: baseUrl
BaseUrl(w) ==
  IF w # NoWindow
  THEN <<w.protocol, "//">> \o LocationHost(w)
  ELSE <<"https:", "//", "evershine-agent.vercel.app">>

\* `${base}/product/${productId}`
ProductUrl(base, productId) == base \o <<"/", "product", "/", productId>>

\* the options object of a call
QROptions(width, margin) ==
  [width |-> width, margin |-> margin,
   color |-> [dark |-> "#000000", light |-> "#ffffff"]]

ToDataURL(w, site, productId, url, options) ==
  [window |-> w, site |-> site, productId |-> productId, url |-> url,
   options |-> options]

\* a page before any call
NoQRCall(w) == ToDataURL(w, "none", "", <<>>, NULL)

notQRCall == <<coreVars, nameWrap, authVars, imageVars, proxy>>

\* QRCodeGenerator.generateQRCode
QRCodeGeneratorCall ==
  /\ \E productId \in PostIds :
       qrCall' = ToDataURL(qrCall.window, "QRCodeGenerator", productId,
                           ProductUrl(BaseUrl(qrCall.window), productId),
                           QROptions(200, 1))
  /\ UNCHANGED notQRCall

\* AllQR.generateAndDownloadQR, a click handler
AllQRCall ==
  /\ qrCall.window # NoWindow
  /\ \E productId \in PostIds :
       qrCall' = ToDataURL(qrCall.window, "AllQR", productId,
                           ProductUrl(LocationOrigin(qrCall.window), productId),
                           QROptions(200, 1))
  /\ UNCHANGED notQRCall

\* ProductForm.generateQRCode, called by handleSubmit
ProductFormCall ==
  /\ qrCall.window # NoWindow
  /\ \E productId \in PostIds :
       qrCall' = ToDataURL(qrCall.window, "ProductForm", productId,
                           ProductUrl(LocationOrigin(qrCall.window), productId),
                           QROptions(200, 2))
  /\ UNCHANGED notQRCall

\* ProductDetail.generateAndDownloadQR, a click handler
ProductDetailCall ==
  /\ qrCall.window # NoWindow
  /\ \E productId \in PostIds :
       qrCall' = ToDataURL(qrCall.window, "ProductDetail", productId,
                           ProductUrl(LocationOrigin(qrCall.window), productId),
                           QROptions(200, 1))
  /\ UNCHANGED notQRCall

\* ProductDetail.downloadSimpleQRCode, a click handler
DownloadSimpleQRCodeCall ==
  /\ qrCall.window # NoWindow
  /\ \E productId \in PostIds :
       qrCall' = ToDataURL(qrCall.window, "downloadSimpleQRCode", productId,
                           ProductUrl(LocationOrigin(qrCall.window), productId),
                           QROptions(300, 1))
  /\ UNCHANGED notQRCall

\* -------------------------------------------------------------------------
\* The proxy-image route: GET
\* -------------------------------------------------------------------------

\* searchParams.get("url"): null (here ""), the empty text, a text that is
\* no URL, or the URL of an image
UrlParams == {"", "not a url", "https://img/1.jpg", "https://img/2.svg"}

FetchableUrls == {"https://img/1.jpg", "https://img/2.svg"}

\* what the upstream server may answer
UpstreamStatuses == {200, 204, 404, 500}

UpstreamContentTypes == {"", "image/png", "image/svg+xml", "text/html"}

UpstreamBodies == {"bytes-1", "bytes-2"}

\* response.ok
ResponseOk(status) == status >= 200 /\ status <= 299

ProxyHeaders(contentType) ==
  [ContentType |-> contentType,
   CacheControl |-> "public, max-age=86400",
   AccessControlAllowOrigin |-> "*"]

\* the placeholder SVG response
PlaceholderResponse ==
  [body |-> "placeholder-svg", headers |-> ProxyHeaders("image/svg+xml")]

\* new NextResponse(blob, ...)
ImageResponse(upstream) ==
  [body |-> upstream.body,
   headers |-> ProxyHeaders(IF upstream.contentType # ""
                            THEN upstream.contentType
                            ELSE "image/jpeg")]

\* a handler that re-serves whatever the upstream server answered
ProxyAfterFetchUnchecked(p, upstream) ==
  [p EXCEPT !.stage = "blob", !.upstream = upstream]

\* GET after fetch has resolved: the test of response.ok
ProxyAfterFetch(p, upstream) ==
  IF ~ResponseOk(upstream.status)
  THEN [p EXCEPT !.stage = "responded", !.upstream = upstream,
                 !.response = PlaceholderResponse]
  ELSE [p EXCEPT !.stage = "blob", !.upstream = upstream]

\* a request that has entered GET
ProxyRequest(url) ==
  [url |-> url, stage |-> "start", upstream |-> NULL, caught |-> "",
   response |-> NULL]

notProxy == <<coreVars, nameWrap, authVars, imageVars, qrCall>>

\* a request arrives, once the one before has been answered
ProxyGetArrives ==
  /\ proxy.stage = "responded"
  /\ \E url \in UrlParams : proxy' = ProxyRequest(url)
  /\ UNCHANGED notProxy

\* GET up to the first await: the test of the url parameter, then fetch
ProxyGet ==
  /\ proxy.stage = "start"
  /\ proxy' = IF proxy.url = ""
              THEN [proxy EXCEPT !.stage = "responded",
                                 !.response = PlaceholderResponse]
              ELSE [proxy EXCEPT !.stage = "fetch"]
  /\ UNCHANGED notProxy

\* fetch resolves with the upstream response
ProxyFetchResolves ==
  /\ proxy.stage = "fetch"
  /\ proxy.url \in FetchableUrls
  /\ \E status \in UpstreamStatuses, contentType \in UpstreamContentTypes,
        body \in UpstreamBodies :
       proxy' = ProxyAfterFetch(proxy, [status |-> status,
                                        contentType |-> contentType,
                                        body |-> body])
  /\ UNCHANGED notProxy

\* fetch rejects (no URL, network failure): the catch block answers
ProxyFetchRejects ==
  /\ proxy.stage = "fetch"
  /\ proxy' = [proxy EXCEPT !.stage = "responded", !.caught = "fetch",
                            !.response = PlaceholderResponse]
  /\ UNCHANGED notProxy

\* response.blob() resolves
ProxyBlobResolves ==
  /\ proxy.stage = "blob"
  /\ proxy' = [proxy EXCEPT !.stage = "responded",
                            !.response = ImageResponse(proxy.upstream)]
  /\ UNCHANGED notProxy

\* response.blob() rejects: the catch block answers
ProxyBlobRejects ==
  /\ proxy.stage = "blob"
  /\ proxy' = [proxy EXCEPT !.stage = "responded", !.caught = "blob",
                            !.response = PlaceholderResponse]
  /\ UNCHANGED notProxy

\* -------------------------------------------------------------------------
\* ProductForm in edit mode: the default values
\* -------------------------------------------------------------------------

\* initialData.size.split(/[x*-]/): the pieces between the separators
RECURSIVE SplitSize(_, _, _)
SplitSize(s, i, piece) ==
  IF i > Len(s) THEN <<piece>>
  ELSE IF s[i] \in {"x", "*", "-"}
  THEN <<piece>> \o SplitSize(s, i + 1, <<>>)
  ELSE SplitSize(s, i + 1, Append(piece, s[i]))

\* split(...)[k], counted from 0; undefined (here empty) past the end
SizePart(sz, k) ==
  LET parts == SplitSize(sz, 1, <<>>)
  IN  IF k + 1 <= Len(parts) THEN parts[k + 1] ELSE <<>>

\* defaultValues of useForm for the given initialData
DefaultValues(initialData) ==
  [quantityAvailable |-> initialData.quantityAvailable,
   size |-> initialData.size,
   sizeLength |-> IF initialData.size # <<>>
                  THEN SizePart(initialData.size, 0) ELSE <<>>,
   sizeHeight |-> IF initialData.size # <<>>
                  THEN SizePart(initialData.size, 1) ELSE <<>>,
   sizeUnit |-> IF initialData.sizeUnit # "" THEN initialData.sizeUnit
                ELSE "in",
   numberOfPieces |-> initialData.numberOfPieces]

\* the first run of the quantity effect, autoCalculateQuantity being true
MountEffect(d) ==
  Effect(TRUE, d.sizeLength, d.sizeHeight, d.sizeUnit, d.numberOfPieces,
         d.quantityAvailable, "")

\* ProductForm mounted in edit mode with initialData, after its effects
InitEditForm(initialData) ==
  LET d == DefaultValues(initialData)
      r == MountEffect(d)
  IN  /\ sizeLength = d.sizeLength
      /\ sizeHeight = d.sizeHeight
      /\ sizeUnit = d.sizeUnit
      /\ numberOfPieces = d.numberOfPieces
      /\ size = d.size
      /\ autoCalculateQuantity = TRUE
      /\ quantityAvailable = r.quantity
      /\ calculationPreview = r.preview
      /\ sizeParseError = r.error

\* -------------------------------------------------------------------------
\* Specifications
\* -------------------------------------------------------------------------
\* nothing of the code that runs on its own has started
InitStandalone ==
  /\ nameWrap = NoWrap
  /\ storage = LoggedOut
  /\ guard = PageLoaded("/login")
  /\ initialImages = <<>>
  /\ images = <<>>
  /\ newImageCount = 0
  /\ proxy = NULL
  /\ qrCall = NULL

NextForm ==
  \/ ChangeSizeLength
  \/ ChangeSizeHeight
  \/ ChangeSizeUnit
  \/ ChangeNumberOfPieces
  \/ ToggleAutoCalculate
  \/ EnterQuantity

\* a fresh create-mode form, nothing stored, no page open
Init ==
  /\ InitForm
  /\ InitSubmit("create", <<>>)
  /\ product = NULL
  /\ InitDetail
  /\ InitPages
  /\ InitWidgets
  /\ InitStandalone
  /\ failed = {}

SpecForm == Init /\ [][NextForm]_vars

\* a create-mode form into which a length, a height, a unit and a piece
\* count have been entered, with or without an image chosen
InitFilledFrom(texts) ==
  /\ \E l \in texts, h \in texts, p \in texts, u \in Units :
       LET r == Effect(TRUE, l, h, u, p, <<>>, "")
       IN  /\ sizeLength = l
           /\ sizeHeight = h
           /\ sizeUnit = u
           /\ numberOfPieces = p
           /\ size = CombinedSize(l, h)
           /\ autoCalculateQuantity = TRUE
           /\ quantityAvailable = r.quantity
           /\ calculationPreview = r.preview
           /\ sizeParseError = r.error
  /\ \E chosen \in {<<>>, <<1>>} :
       /\ InitSubmit("create", [i \in DOMAIN chosen |->
                                  CreateObjectURL(chosen[i])])
       /\ images = chosen
       /\ newImageCount = Len(chosen)
  /\ product = NULL
  /\ InitDetail
  /\ InitPages
  /\ InitWidgets
  /\ nameWrap = NoWrap
  /\ storage = LoggedOut
  /\ guard = PageLoaded("/login")
  /\ initialImages = <<>>
  /\ proxy = NULL
  /\ qrCall = NULL
  /\ failed = {}

NextDetail ==
  \/ SubmitStart
  \/ SubmitSucceeds
  \/ SubmitFails
  \/ OpenProductDetail
  \/ FetchProductSucceeds
  \/ FetchProductFails

InitFilled == InitFilledFrom(FormTexts)

SpecDetail == InitFilled /\ [][NextDetail]_vars

\* the form filled in with the sizes and piece counts of a slab
SlabTexts ==
  {<<"6", "0">>, <<"1", "2", "0">>, <<"1", "0">>, <<"2", ".", "5">>}

InitSlab == InitFilledFrom(SlabTexts)

SpecSlab == InitSlab /\ [][NextDetail]_vars

NextData ==
  \/ ProductsFetchSucceeds
  \/ ProductsFetchFails
  \/ HandleEditStart
  \/ HandleEditSucceeds
  \/ HandleEditFails
  \/ GoToAllQR
  \/ GoToProducts
  \/ AllQRFetchSucceeds
  \/ AllQRFetchFails
  \/ HandlePriceChange
  \/ UpdatePriceStart
  \/ UpdatePriceSucceeds
  \/ UpdatePriceFails
  \/ EditFetchSucceeds
  \/ EditFetchFails

SpecData == Init /\ [][NextData]_vars

NextQR ==
  \/ ProductsFetchSucceeds
  \/ GoToAllQR
  \/ AllQRFetchSucceeds
  \/ GenerateAndDownloadQRStart
  \/ CardToDataURLResolves
  \/ CardToDataURLRejects
  \/ CardTemplateOnLoad
  \/ CardTemplateOnError
  \/ CardQROnLoad
  \/ CardQROnError
  \/ QRGeneratorEffect
  \/ QRGeneratorProductIdChanges
  \/ QRGeneratorUnmounts
  \/ QRToDataURLResolves
  \/ QRToDataURLRejects
  \/ QRTemplateOnLoad
  \/ QRTemplateOnError
  \/ QRCodeOnLoad
  \/ QRCodeLoadFails

SpecQR == Init /\ [][NextQR]_vars

NextTexture ==
  \/ VisualizerMountEffects
  \/ ProductImageChanges
  \/ LoadingTimerFires
  \/ TextureOnLoad
  \/ TextureOnError

SpecTexture == Init /\ [][NextTexture]_vars

NextVis ==
  \/ VisualizerMountEffects
  \/ ProductImageChanges
  \/ LoadingTimerFires
  \/ TextureOnLoad
  \/ TextureOnError
  \/ MockupOnLoad
  \/ MockupOnError

SpecVis == Init /\ [][NextVis]_vars

\* the forms, the pages and the components as Init leaves them
InitCore ==
  /\ InitForm
  /\ InitSubmit("create", <<>>)
  /\ product = NULL
  /\ InitDetail
  /\ InitPages
  /\ InitWidgets
  /\ failed = {}

\* a name of up to MaxWords words is about to be drawn, under any text
\* metrics
InitWrap ==
  /\ InitCore
  /\ \E n \in 1..MaxWords : \E wide \in SUBSET LinesOf(n) :
       nameWrap = WrapStart(n, wide)
  /\ storage = LoggedOut
  /\ guard = PageLoaded("/login")
  /\ initialImages = <<>>
  /\ images = <<>>
  /\ newImageCount = 0
  /\ proxy = NULL
  /\ qrCall = NULL

NextWrap ==
  \/ WrapWord
  \/ WrapLastLine

SpecWrap == InitWrap /\ [][NextWrap]_vars

\* the browser opens the login page or a protected page, with any
\* localStorage
InitAuth ==
  /\ InitCore
  /\ nameWrap = NoWrap
  /\ storage \in StorageStates
  /\ \E path \in ProtectedPaths \cup {"/login"} : guard = PageLoaded(path)
  /\ initialImages = <<>>
  /\ images = <<>>
  /\ newImageCount = 0
  /\ proxy = NULL
  /\ qrCall = NULL

NextAuth ==
  \/ ProtectedRouteEffect
  \/ HandleLogout
  \/ SidebarNavigate
  \/ NavigationCompletes
  \/ LoginSucceeds
  \/ LoginFails
  \/ LoginRedirect
  \/ StorageChanges

SpecAuth == InitAuth /\ [][NextAuth]_vars

\* a page of any of the locations, or code running without a window
InitQRCall ==
  /\ InitCore
  /\ nameWrap = NoWrap
  /\ storage = LoggedOut
  /\ guard = PageLoaded("/login")
  /\ initialImages = <<>>
  /\ images = <<>>
  /\ newImageCount = 0
  /\ proxy = NULL
  /\ qrCall \in {NoQRCall(w) : w \in Locations \cup {NoWindow}}

NextQRCall ==
  \/ QRCodeGeneratorCall
  \/ AllQRCall
  \/ ProductFormCall
  \/ ProductDetailCall
  \/ DownloadSimpleQRCodeCall

SpecQRCall == InitQRCall /\ [][NextQRCall]_vars

\* the route with its first request
InitProxy ==
  /\ InitCore
  /\ nameWrap = NoWrap
  /\ storage = LoggedOut
  /\ guard = PageLoaded("/login")
  /\ initialImages = <<>>
  /\ images = <<>>
  /\ newImageCount = 0
  /\ \E url \in UrlParams : proxy = ProxyRequest(url)
  /\ qrCall = NULL

NextProxy ==
  \/ ProxyGetArrives
  \/ ProxyGet
  \/ ProxyFetchResolves
  \/ ProxyFetchRejects
  \/ ProxyBlobResolves
  \/ ProxyBlobRejects

SpecProxy == InitProxy /\ [][NextProxy]_vars

\* the file input used while no file is chosen
ChooseImages == images = <<>> /\ HandleImageChange

\* the create form submitted any number of times, the quantity typed by
\* hand and the size fields left empty
NextSubmit ==
  \/ ToggleAutoCalculate
  \/ EnterQuantity
  \/ ChooseImages
  \/ SubmitStart
  \/ SubmitSucceeds
  \/ SubmitFails

SpecSubmit == Init /\ [][NextSubmit]_vars

\* the quantities that a stored product may carry
StoredQuantities == {<<>>, <<"5">>, <<"0", ".", "0", "3">>}

\* the edit page has fetched a product that the form had stored, and shows
\* the form with it
InitEdit ==
  /\ \E l \in FormTexts, h \in FormTexts, p \in FormTexts, u \in Units,
        q \in StoredQuantities :
       LET initialData == [postId |-> "p1", size |-> CombinedSize(l, h),
                           sizeUnit |-> u, numberOfPieces |-> p,
                           quantityAvailable |-> q]
       IN  /\ editPg = [loading |-> FALSE, error |-> "",
                        product |-> initialData, fetch |-> "done"]
           /\ InitEditForm(initialData)
  /\ page = "edit-product"
  /\ productsPg = NULL
  /\ allQR = NULL
  /\ serverProducts = InitServerProducts
  /\ InitImages("edit", 1)
  /\ product = NULL
  /\ InitDetail
  /\ InitWidgets
  /\ nameWrap = NoWrap
  /\ storage = LoggedOut
  /\ guard = PageLoaded("/login")
  /\ proxy = NULL
  /\ qrCall = NULL
  /\ failed = {}

\* the edit form used without touching the size, the piece count, the unit
\* or the switch
NextEdit ==
  \/ ChooseImages
  \/ RemoveImage
  \/ SubmitStart
  \/ SubmitSucceeds
  \/ SubmitFails

SpecEdit == InitEdit /\ [][NextEdit]_vars

\* the form opens in create mode, or in edit mode on a product with up to
\* MaxExisting images
InitImageForm ==
  /\ InitForm
  /\ \E m \in {"create", "edit"}, n \in 0..MaxExisting :
       /\ m = "create" => n = 0
       /\ InitImages(m, n)
  /\ product = NULL
  /\ InitDetail
  /\ InitPages
  /\ InitWidgets
  /\ nameWrap = NoWrap
  /\ storage = LoggedOut
  /\ guard = PageLoaded("/login")
  /\ proxy = NULL
  /\ qrCall = NULL
  /\ failed = {}

NextImages ==
  \/ HandleImageChange
  \/ RemoveImage

SpecImages == InitImageForm /\ [][NextImages]_vars

\* -------------------------------------------------------------------------
\* Claims about the quantity auto-calculation
\* -------------------------------------------------------------------------
Positive(v) == ~IsNaN(v) /\ v.num > 0

\* the three inputs hold text and all parse to numbers
AllNumeric ==
  /\ sizeLength # <<>> /\ sizeHeight # <<>> /\ numberOfPieces # <<>>
  /\ ~AnyNaN(ParseFloat(sizeLength), ParseFloat(sizeHeight),
             ParseFloat(numberOfPieces))

AllPositive ==
  /\ Positive(ParseFloat(sizeLength))
  /\ Positive(ParseFloat(sizeHeight))
  /\ Positive(ParseFloat(numberOfPieces))

\* some input is non-numeric, zero or negative
SomeInvalid == ~AllPositive

\* the text q reads as a number of at most two decimals that is the nearest
\* hundredth to (l * h * p) / d, a tie going up
IsAreaOf(q, l, h, p, d) ==
  LET v == ParseFloat(q)
      a == ParseFloat(l)
      b == ParseFloat(h)
      c == ParseFloat(p)
  IN  /\ ~IsNaN(v)
      /\ v.den \in {1, 10, 100}
      /\ LET k == v.num * (100 \div v.den)
             n == a.num * b.num * c.num
             m == a.den * b.den * c.den * d
         IN  (2 * k - 1) * m <= 200 * n /\ 200 * n < (2 * k + 1) * m

SpecDivisor(unit) == CASE unit = "in" -> 144 [] unit = "cm" -> 929

\* C1: with auto-calculate on and length, height and pieces all parsing to
\* positive numbers, quantityAvailable is (length * height * pieces) / d
\* rounded to two decimals, d = 144 for "in" and 929 for "cm".
C1_QuantityIsRoundedArea ==
  (autoCalculateQuantity /\ AllPositive /\ sizeUnit \in Units)
    => IsAreaOf(quantityAvailable, sizeLength, sizeHeight, numberOfPieces,
                SpecDivisor(sizeUnit))

\* C1 witness: 2 x 2 x 2 cm, where 8 / 929 = 0.0086... rounds up to 0.01
C1_Witness ==
  /\ autoCalculateQuantity /\ AllPositive /\ sizeUnit = "cm"
  /\ ParseFloat(sizeLength).num * ParseFloat(sizeHeight).num
       * ParseFloat(numberOfPieces).num = 8
  /\ quantityAvailable = <<"0", ".", "0", "1">>

\* C2: with auto-calculate on, a step that leaves a non-numeric, zero or
\* negative input in length, height or pieces sets no preview and writes
\* nothing into quantityAvailable.
C2_NoResultForInvalidInput ==
  [][(autoCalculateQuantity' /\ SomeInvalid')
       => (calculationPreview' = NULL
           /\ quantityAvailable' = quantityAvailable)]_vars

\* C3: with auto-calculate on and three numeric inputs, the quantity is the
\* area of the current inputs whatever edits came before, and it is never
\* negative.
C3_NonNegativeAndMemoryless ==
  (autoCalculateQuantity /\ AllNumeric)
    => /\ IsAreaOf(quantityAvailable, sizeLength, sizeHeight, numberOfPieces,
                   SpecDivisor(sizeUnit))
       /\ ParseFloat(quantityAvailable).num >= 0

InputsChanged ==
  <<sizeLength, sizeHeight, sizeUnit, numberOfPieces>>'
    # <<sizeLength, sizeHeight, sizeUnit, numberOfPieces>>

\* C4: while auto-calculate is off the preview is null and a change of
\* length, height, unit or pieces leaves quantityAvailable alone; while it
\* is on, a change of one of them that leaves all three numeric overwrites
\* quantityAvailable with the area of the new inputs.
C4_SwitchGovernsOverwrite ==
  [][/\ ~autoCalculateQuantity' => calculationPreview' = NULL
     /\ (~autoCalculateQuantity /\ ~autoCalculateQuantity' /\ InputsChanged)
          => quantityAvailable' = quantityAvailable
     /\ (autoCalculateQuantity /\ autoCalculateQuantity' /\ InputsChanged
           /\ AllNumeric')
          => IsAreaOf(quantityAvailable', sizeLength', sizeHeight',
                      numberOfPieces', SpecDivisor(sizeUnit'))]_vars

\* C4 witness: the switch is off, the inputs are numeric and the field holds
\* something other than their area
C4_Witness ==
  /\ ~autoCalculateQuantity /\ AllNumeric
  /\ calculationPreview = NULL
  /\ quantityAvailable # <<>>
  /\ ~IsAreaOf(quantityAvailable, sizeLength, sizeHeight, numberOfPieces,
               SpecDivisor(sizeUnit))

\* -------------------------------------------------------------------------
\* Claims about the product-detail formula
\* -------------------------------------------------------------------------
\* C5: for a product saved by the form with unit "in" or "cm", the formula
\* shown on the product-detail page uses the divisor the form used: 144 for
\* "in", 929 for "cm".
C5_DetailUsesFormDivisor ==
  (detailPage = "done" /\ quantityFormula # NULL
     /\ detailProduct.sizeUnit \in Units)
    => quantityFormula.d = SpecDivisor(detailProduct.sizeUnit)

\* what each remote data operation leaves on the screen when it fails: the
\* alert of the Products page, the error toast of the AllQR page, the error
\* view of the edit page, the error view of the detail page, the message
\* block of the form
ErrorVisible(op) ==
  CASE op = "Products.fetchProducts" -> productsPg # NULL /\ productsPg.alert # ""
    [] op = "Products.handleEdit" -> productsPg # NULL /\ productsPg.alert # ""
    [] op = "AllQR.fetchProducts" ->
         allQR # NULL /\ allQR.toast # NULL /\ allQR.toast.type = "error"
    [] op = "AllQR.updatePrice" ->
         allQR # NULL /\ allQR.toast # NULL /\ allQR.toast.type = "error"
    [] op = "EditProduct.fetchProduct" -> EditView = "Error Loading Product"
    [] op = "ProductDetail.fetchProduct" -> detailError # ""
    [] op = "handleSubmit" -> MessageShown /\ message.type = "error"

\* C6: every step in which a remote data operation fails (no success flag,
\* or a thrown transport error) ends in a state that shows an error for it
C6_FailureIsVisible ==
  [][\A op \in failed' \ failed : ErrorVisible(op)']_vars

\* a started QRCodeGenerator whose generations have all run to their end
QRGeneratorSettled ==
  /\ qrGenerator.mounted
  /\ qrGenerator.generations # <<>>
  /\ \A i \in DOMAIN qrGenerator.generations :
       qrGenerator.generations[i].stage \in EndedStages

\* C7: once a QR card generation has ended, whichever way, and nothing of it
\* is pending, the generating flag is false: isGenerating in QRCodeGenerator,
\* generatingQR[postId] in AllQR
C7_EndedGenerationClearsFlag ==
  /\ QRGeneratorSettled => ~qrGenerator.isGenerating
  /\ \A id \in ProductIds :
       cardOps[id].stage \in EndedStages => ~generatingQR[id]

\* the generations that hold a canvas, each with the canvas it holds
CanvasHolders ==
  {[op |-> <<"QRCodeGenerator", i>>,
    canvas |-> qrGenerator.generations[i].canvas] :
     i \in {j \in DOMAIN qrGenerator.generations :
              qrGenerator.generations[j].stage \in HoldingStages}}
  \cup
  {[op |-> <<"AllQR", id>>, canvas |-> cardOps[id].canvas] :
     id \in {j \in ProductIds : cardOps[j].stage \in HoldingStages}}

\* C8: two generations under way at the same time never hold the same canvas
C8_NoCanvasSharedInFlight ==
  \A a \in CanvasHolders, b \in CanvasHolders :
    a.op # b.op => a.canvas # b.canvas

\* no load of the first preload batch is pending
FirstBatchDone ==
  visualizer.batches # <<>> /\ visualizer.batches[1] = {}

\* C9: the preview is shown (showLoading false) only when the six mockup
\* loads of the first batch have settled, the texture is ready and the 500 ms
\* timer has fired; allMockupsLoaded is never true while a load of the first
\* batch is pending
C9_PreviewWaitsForAllLoads ==
  /\ ~ShowLoading =>
       FirstBatchDone /\ visualizer.textureReady /\ visualizer.timer = "fired"
  /\ visualizer.allMockupsLoaded => FirstBatchDone

\* C10: the step in which the product image of a createBookmatchedTexture
\* call fails to load stores the imageUrl that was passed in, never the proxy
\* src of an external image, and sets textureReady
C10_LoadErrorFallsBackToOriginal ==
  [][\A i \in DOMAIN visualizer.textures :
       (visualizer.textures[i].stage = "loading"
          /\ visualizer'.textures[i].stage = "failed")
       => /\ visualizer'.bookmatchedTextureRef =
               [kind |-> "url", url |-> visualizer.textures[i].imageUrl]
          /\ visualizer.textures[i].src # visualizer.textures[i].imageUrl
               => visualizer'.bookmatchedTextureRef.url
                    # visualizer.textures[i].src
          /\ visualizer'.textureReady]_vars

\* the load of an external image, requested through the proxy, has failed and
\* the texture is the external URL itself
C10_Witness ==
  \E i \in DOMAIN visualizer.textures :
    /\ visualizer.textures[i].stage = "failed"
    /\ visualizer.textures[i].imageUrl = ExternalImage
    /\ visualizer.textures[i].src # ExternalImage
    /\ visualizer.bookmatchedTextureRef = [kind |-> "url", url |-> ExternalImage]
    /\ visualizer.textureReady

\* the words of the name that some fillText call has drawn
DrawnWords ==
  UNION {nameWrap.drawn[d].line[1]..nameWrap.drawn[d].line[2] :
           d \in {e \in DOMAIN nameWrap.drawn : nameWrap.drawn[e].line # <<>>}}

\* C11: when the name has been drawn, text stands on the line positions 810,
\* 830 and 850 only, and if a word of the name was not drawn then the last
\* text drawn ends with an ellipsis
C11_ThreeLinesAndEllipsis ==
  nameWrap.pc = "done" =>
    /\ \A d \in DOMAIN nameWrap.drawn :
         nameWrap.drawn[d].y \in {textY, textY + 20, textY + 40}
    /\ DrawnWords # 1..nameWrap.words =>
         /\ nameWrap.drawn # <<>>
         /\ nameWrap.drawn[Len(nameWrap.drawn)].ellipsis

\* the texture that createBookmatchedTexture has composed, if any
Composed ==
  visualizer.bookmatchedTextureRef # NULL
    /\ visualizer.bookmatchedTextureRef.kind = "bookmatched"

\* the cell at column x, row y of a grid of w x h cells, mirrored as given
Cell(x, y, w, h, flipX, flipY) ==
  [left |-> x * w, right |-> (x + 1) * w, top |-> y * h,
   bottom |-> (y + 1) * h, flipX |-> flipX, flipY |-> flipY]

\* C12: a composed texture of a 488 or 646 square is a canvas of 2w x 2h
\* holding the source top-left, its horizontal mirror top-right, its
\* vertical mirror bottom-left and its mirror along both axes bottom-right;
\* of any other image it is a canvas of 4w x 4h holding 16 tiles
C12_TilingFollowsDimensions ==
  Composed =>
    LET t == visualizer.bookmatchedTextureRef
        w == t.source[1]
        h == t.source[2]
    IN  IF <<w, h>> \in {<<488, 488>>, <<646, 646>>}
        THEN /\ t.width = 2 * w /\ t.height = 2 * h
             /\ t.tiles = {Cell(0, 0, w, h, FALSE, FALSE),
                           Cell(1, 0, w, h, TRUE, FALSE),
                           Cell(0, 1, w, h, FALSE, TRUE),
                           Cell(1, 1, w, h, TRUE, TRUE)}
        ELSE /\ t.width = 4 * w /\ t.height = 4 * h
             /\ Cardinality(t.tiles) = 16
             /\ \A c \in t.tiles :
                  /\ c.right - c.left = w /\ c.bottom - c.top = h
                  /\ c.left \in {0, w, 2 * w, 3 * w}
                  /\ c.top \in {0, h, 2 * h, 3 * h}

\* a 2x2 texture of a 488 square is stored
C12_Witness ==
  /\ Composed
  /\ visualizer.bookmatchedTextureRef.source = <<488, 488>>
  /\ visualizer.bookmatchedTextureRef.width = 976
  /\ Cardinality(visualizer.bookmatchedTextureRef.tiles) = 4

\* two tiles share more than an edge
Overlap(c, d) ==
  /\ c.left < d.right /\ d.left < c.right
  /\ c.top < d.bottom /\ d.top < c.bottom

\* C13: in a 4x4 texture, of a nearly square image and of an oblong one
\* alike, the tile of column x and row y covers [x*w, (x+1)*w] x
\* [y*h, (y+1)*h], is mirrored horizontally exactly for odd x and vertically
\* exactly for odd y; both loops give the same 16 tiles for the same image
\* size, and the tiles cover the canvas without gap or overlap
C13_FourByFourBranchesAgree ==
  (Composed /\ ~IsExactSquare(visualizer.bookmatchedTextureRef.source[1],
                              visualizer.bookmatchedTextureRef.source[2])) =>
    LET t == visualizer.bookmatchedTextureRef
        w == t.source[1]
        h == t.source[2]
    IN  /\ t.tiles = {Cell(x, y, w, h, x % 2 = 1, y % 2 = 1) :
                        x \in 0..3, y \in 0..3}
        /\ TilesNearlySquare(w, h) = TilesNonSquare(w, h)
        /\ \A c \in t.tiles, d \in t.tiles : c # d => ~Overlap(c, d)
        /\ \A c \in t.tiles :
             /\ 0 <= c.left /\ c.right <= t.width
             /\ 0 <= c.top /\ c.bottom <= t.height
        /\ Cardinality(t.tiles) * w * h = t.width * t.height

\* a 4x4 texture of an oblong image is stored
C13_Witness ==
  /\ Composed
  /\ visualizer.bookmatchedTextureRef.source = <<800, 400>>
  /\ Cardinality(visualizer.bookmatchedTextureRef.tiles) = 16
  /\ visualizer.bookmatchedTextureRef.width = 3200

\* C14: whenever ProtectedRoute renders its children, isFeederAuthenticated()
\* is true at that moment, also after a logout or a change of localStorage
\* while the page stays mounted; and a page whose check at mount failed
\* shows no children and has asked for /login
C14_ChildrenOnlyWhenAuthenticated ==
  /\ ChildrenRendered => IsFeederAuthenticated(storage)
  /\ (guard.path \in ProtectedPaths /\ guard.checked
        /\ ~guard.isAuthenticated)
       => ~ChildrenRendered /\ guard.push # ""

\* C15: the form never shows more than 10 images, in create mode and in
\* edit mode, whatever was added and removed
C15_AtMostTenImages == Len(previews) <= 10

\* the previews shown that are object URLs of chosen files, in order
NewPreviews == SelectSeq(previews, LAMBDA url : "blob" \in DOMAIN url)

\* C20: in edit mode the previews that are not server images are, in order,
\* the object URLs of the files in images, newImageCount is the number of
\* files, and a submission uploads exactly the files still shown
C20_NewPreviewsMatchFiles ==
  mode = "edit" =>
    /\ NewPreviews = [i \in DOMAIN images |-> CreateObjectURL(images[i])]
    /\ newImageCount = Len(images)
    /\ [i \in DOMAIN UploadedImages |-> CreateObjectURL(UploadedImages[i])]
         = NewPreviews
    /\ ExistingImagesInPreviews \o NewPreviews = previews

\* the origin that a QR code of the page is to carry
ExpectedOrigin(w) ==
  IF w = NoWindow
  THEN <<"https:", "//", "evershine-agent.vercel.app">>
  ELSE LocationOrigin(w)

\* C16: every call encodes <origin>/product/<productId>, the origin being
\* that of the page or the production URL without a window; the text does
\* not end in a slash and has no query string
C16_QREncodesProductUrl ==
  qrCall.site # "none" =>
    /\ qrCall.url = ExpectedOrigin(qrCall.window)
                      \o <<"/", "product", "/", qrCall.productId>>
    /\ qrCall.url[Len(qrCall.url)] # "/"
    /\ \A i \in DOMAIN qrCall.url : qrCall.url[i] \notin {"?", "#", ""}

C16_Witness ==
  /\ qrCall.site = "QRCodeGenerator"
  /\ qrCall.window # NoWindow
  /\ qrCall.window.port = "3000"
  /\ qrCall.productId = "abc123"

\* C17: two calls that follow each other pass the same width, margin and
\* palette
C17_SameOptionsEverywhere ==
  [][(qrCall.site # "none" /\ qrCall'.site # "none")
       => qrCall'.options = qrCall.options]_vars

\* the request was answered with the upstream bytes
ServesUpstream ==
  /\ proxy.upstream # NULL
  /\ proxy.response.body = proxy.upstream.body

\* C19: a request without url, with a failed fetch, a non-OK upstream
\* response or a failed read of the body is answered with the placeholder
\* as image/svg+xml, a rejected await included; the upstream bytes are
\* served only for an OK upstream response
C19_PlaceholderOnAnyFailure ==
  /\ proxy.stage \in {"start", "fetch", "blob", "responded"}
  /\ proxy.stage = "responded" =>
       /\ proxy.response # NULL
       /\ (\/ proxy.url = ""
           \/ proxy.caught # ""
           \/ proxy.upstream = NULL
           \/ ~ResponseOk(proxy.upstream.status))
            => /\ proxy.response = PlaceholderResponse
               /\ proxy.response.headers.ContentType = "image/svg+xml"
       /\ ServesUpstream
            => /\ ResponseOk(proxy.upstream.status)
               /\ proxy.caught = ""

C19_Witness ==
  /\ proxy.stage = "responded"
  /\ proxy.upstream # NULL
  /\ proxy.upstream.status = 404
  /\ proxy.response = PlaceholderResponse

\* the text "(l × h × p) ÷ d = A sqft" for the numerals l, h, p
FormulaOf(l, h, p, d) ==
  FormulaText(Formula(ParseFloat(l), ParseFloat(h), ParseFloat(p), d))

\* C18: the formula of the form and the formula of the detail page of a
\* product saved by the form are "(l × h × p) ÷ d = A sqft" with the
\* operands entered, the divisor of the unit and the area with 2 decimals;
\* for 60, 120, 10 and "in" it is "(60 × 120 × 10) ÷ 144 = 500.00 sqft"
C18_FormulaEchoesOperands ==
  /\ calculationPreview # NULL =>
       /\ FormulaText(calculationPreview)
            = FormulaOf(sizeLength, sizeHeight, numberOfPieces,
                        SpecDivisor(sizeUnit))
       /\ (/\ sizeLength = <<"6", "0">> /\ sizeHeight = <<"1", "2", "0">>
           /\ numberOfPieces = <<"1", "0">> /\ sizeUnit = "in")
            => FormulaText(calculationPreview)
                 = <<"(", "6", "0", " ", "×", " ", "1", "2", "0", " ", "×",
                     " ", "1", "0", ")", " ", "÷", " ", "1", "4", "4", " ",
                     "=", " ", "5", "0", "0", ".", "0", "0", " ", "s", "q",
                     "f", "t">>
  /\ (detailPage = "done" /\ quantityFormula # NULL
        /\ detailProduct.sizeUnit \in Units) =>
       LET match == MatchSize(RemoveSpaces(detailProduct.size))
       IN  FormulaText(quantityFormula)
             = FormulaOf(match.length, match.height,
                         detailProduct.numberOfPieces,
                         SpecDivisor(detailProduct.sizeUnit))

\* the number of lines of the greedy wrap of the words k..n, the line in
\* hand starting at the word start: a word goes to a new line when the line
\* with it is wider than maxWidth
RECURSIVE GreedyLineCount(_, _, _, _)
GreedyLineCount(n, wide, k, start) ==
  IF k > n THEN 1
  ELSE IF k > start /\ <<start, k>> \in wide
  THEN 1 + GreedyLineCount(n, wide, k + 1, k)
  ELSE GreedyLineCount(n, wide, k + 1, start)

\* the words of the lines drawn, in the order of the fillText calls
RECURSIVE WordsDrawn(_, _)
WordsDrawn(drawn, d) ==
  IF d > Len(drawn) THEN <<>>
  ELSE (IF drawn[d].line = <<>> THEN <<>>
        ELSE [i \in 1..(drawn[d].line[2] - drawn[d].line[1] + 1) |->
                drawn[d].line[1] + i - 1])
         \o WordsDrawn(drawn, d + 1)

\* C21: a name whose greedy wrap needs at most 3 lines is drawn whole: every
\* word once, in order, and no ellipsis
C21_NoTruncationWithinThreeLines ==
  (nameWrap.pc = "done"
     /\ GreedyLineCount(nameWrap.words, nameWrap.wide, 1, 1) <= maxLines)
    => /\ WordsDrawn(nameWrap.drawn, 1) = [i \in 1..nameWrap.words |-> i]
       /\ \A d \in DOMAIN nameWrap.drawn : ~nameWrap.drawn[d].ellipsis

\* C29: no two fillText calls of one name have the same y
C29_OneFillTextPerLine ==
  nameWrap.pc = "done" =>
    \A d, e \in DOMAIN nameWrap.drawn :
      d # e => nameWrap.drawn[d].y # nameWrap.drawn[e].y

\* C22: in create mode every step in which a submission fails (no image,
\* a response without success, a transport error) ends in a state that
\* shows an error message
C22_FailedSubmissionShowsError ==
  [][(mode = "create" /\ (SubmitFails \/ (SubmitStart /\ previews = <<>>)))
       => (MessageShown /\ message.type = "error")']_vars

\* C23: with a composed texture the CSS tile size is 2w x 2h for a source of
\* w x h; that is the canvas size for the 2x2 grid and half the canvas size
\* in each dimension for a 4x4 grid
C23_TileSizeIsTwiceTheSource ==
  Composed =>
    LET t == visualizer.bookmatchedTextureRef
        w == t.source[1]
        h == t.source[2]
        css == visualizer.backgroundSize
    IN  /\ css = <<2 * w, 2 * h>>
        /\ (css = <<t.width, t.height>>) <=> IsExactSquare(w, h)
        /\ ~IsExactSquare(w, h) =>
             (2 * css[1] = t.width /\ 2 * css[2] = t.height)

\* a 4x4 texture of a nearly square image with its tile size
C23_Witness ==
  /\ Composed
  /\ visualizer.bookmatchedTextureRef.source = <<500, 510>>
  /\ visualizer.bookmatchedTextureRef.width = 2000
  /\ visualizer.backgroundSize = <<1000, 1020>>

\* the image that the stored texture was made of
TextureImage ==
  IF visualizer.bookmatchedTextureRef.kind = "bookmatched"
  THEN visualizer.bookmatchedTextureRef.image
  ELSE visualizer.bookmatchedTextureRef.url

\* C24: when no image load of createBookmatchedTexture is pending, the
\* texture stored is the one of the current productImage
C24_TextureOfCurrentImage ==
  (/\ visualizer.batches # <<>>
   /\ visualizer.bookmatchedTextureRef # NULL
   /\ \A i \in DOMAIN visualizer.textures :
        visualizer.textures[i].stage # "loading")
    => TextureImage = visualizer.productImage

\* the card that one generation alone draws for a product: the template,
\* the QR code and the name on a cleared canvas
CardOfOneGeneration(productId) ==
  CanvasDataUrl(DrawQRAndName(DrawTemplate(<<>>), productId))

\* C25: when productId has changed during a generation and every image of
\* every generation has loaded, qrCodeUrl is the card of the latest
\* productId, drawn by one generation
C25_CardOfLatestProduct ==
  (/\ qrGenerator.mounted
   /\ Len(qrGenerator.generations) >= 2
   /\ \A i \in DOMAIN qrGenerator.generations :
        qrGenerator.generations[i].stage = "composed")
    => qrGenerator.qrCodeUrl = CardOfOneGeneration(qrGenerator.productId)

\* C26: on the AllQR page the answer to a price update leaves the locally
\* stored entry of every other product as it was, so that two updates under
\* way together both keep their new price
C26_UpdateKeepsOtherPrices ==
  [][(/\ page = "all-qr" /\ page' = "all-qr"
      /\ allQR.fetch = "done" /\ allQR'.fetch = "done")
       => \A req \in allQR.update \ allQR'.update :
            \A pr \in allQR.products :
              pr.postId # req.productId => pr \in allQR'.products]_vars

\* C27: an edit form whose size, piece count, unit and switch were not
\* touched holds the stored quantity
C27_EditKeepsStoredQuantity ==
  (mode = "edit" /\ editPg # NULL /\ editPg.product # NULL)
    => quantityAvailable = editPg.product.quantityAvailable

\* C28: whenever the form has computed a quantity, the size it stores
\* matches the pattern of calculateQuantityFormula and parses back to the
\* length and height that the form used, and calculateQuantityFormula gives
\* a formula for what the form stores with a positive piece count
C28_SizeRoundTrips ==
  calculationPreview # NULL =>
    LET match == MatchSize(RemoveSpaces(FormValues.size))
    IN  /\ match # NULL
        /\ ParseFloat(match.length) = ParseFloat(sizeLength)
        /\ ParseFloat(match.height) = ParseFloat(sizeHeight)
        /\ LET pieces == NumberOf(FormValues.numberOfPieces)
           IN  (~IsNaN(pieces) /\ pieces.num > 0) =>
                 CalculateQuantityFormula(FormValues.size,
                                          FormValues.sizeUnit, pieces) # NULL

\* C30: a step of the login page that reports success and starts the
\* redirect timer ends authenticated; a failed login leaves the stored keys
\* as they were; logoutFeeder ends not authenticated; and the page's own
\* code ends a session only by logoutFeeder and starts one only by a login
C30_SessionFollowsLogin ==
  [][/\ (guard'.success /\ guard'.timer /\ ~guard.timer)
          => IsFeederAuthenticated(storage')
     /\ LoginFails => storage' = storage
     /\ HandleLogout => ~IsFeederAuthenticated(storage')
     /\ (IsFeederAuthenticated(storage) /\ ~IsFeederAuthenticated(storage'))
          => (HandleLogout \/ StorageChanges)
     /\ (~IsFeederAuthenticated(storage) /\ IsFeederAuthenticated(storage'))
          => (LoginSucceeds \/ StorageChanges)]_vars

====
